---- MODULE Spec2Model ----
(***************************************************************************)
(* snark-rs: the R1CS -> PLONK constraint lowerer (src/src/r1cs.rs), the   *)
(* zkey "Additions" writer and the domain setup (src/src/main.rs), the     *)
(* sectioned container reader (src/src/file.rs) and the pipeline entry     *)
(* point (src/src/main.rs).                                                *)
(*                                                                         *)
(* Scalars are Element<Bn128> values: integers below the scalar order,     *)
(* with arithmetic modulo that order.  The model runs the same arithmetic  *)
(* over a small modulus (the state variable order).                        *)
(***************************************************************************)
EXTENDS Integers, Sequences, FiniteSets, TLC

VARIABLES
    order,              \* Bn128::order(), the modulus of Element<Bn128>
    r1cs,               \* the R1cs value handed to process_constraints
    plonk_n_vars,       \* r1cs.rs:23
    plonk_constraints,  \* r1cs.rs:26
    plonk_additions,    \* r1cs.rs:36
    pc,                 \* position inside process_constraints
    s,                  \* loop variable of the public-input loop, r1cs.rs:243
    ci,                 \* index of the constraint the loop r1cs.rs:257 is at
    a, b, c,            \* the three combinations inside process, r1cs.rs:209
    ta, tb,             \* r1cs.rs:225-226
    stage,              \* which reduce_coefs call is running
    max_c,              \* reduce_coefs parameter
    iter,               \* the order in which the map handed to reduce_coefs
                        \* yields its keys (loop r1cs.rs:82)
    k, cs,              \* reduce_coefs locals, r1cs.rs:79-80
    ra, rb,             \* (ka, sa, ca) and (kb, sb, cb), r1cs.rs:173-174
    run, prev,          \* which run of process_constraints this is, and the
                        \* lists the previous run returned
    \* write_additions (main.rs:136)
    n8r,                \* parameter n8r
    fd_zkey,            \* the BinFile written to: [file, pos]
    section_start,      \* where the open section's payload starts
    w_pc,               \* position inside write_additions
    w_i,                \* index of the record the loop main.rs:147 is at
    \* get_k1_k2 (main.rs:83)
    pow, domain_size,   \* parameters
    omega, k1, k2,      \* locals (omega is the local w)
    d_pc,               \* position inside get_k1_k2
    \* main (main.rs:12)
    m_pc,               \* position inside main
    m_env,              \* what main has read so far from its two input files
    m_result,           \* what main returned, or "panic"
    m_detected,         \* the failures main has detected
    \* read_bin_file (file.rs:132)
    f_in,               \* the file's magic, version and sections
    bin_file,           \* the BinFile read from: [file, pos]
    f_pc,               \* position inside read_bin_file
    f_err,              \* the error read_bin_file returned, "" if none
    version, n_sections,\* locals
    f_i,                \* iterations of the loop file.rs:165 done
    sections,           \* the section table
    \* the section readers (file.rs:181-363), called on bin_file and sections
    rd_calls,           \* how many reader calls have returned
    rd_res,             \* the last call: function, arguments, outcome
    r1cs_header,        \* the R1csHeader of the last read_r1cs_header
    \* get_curve_from_q (curves.rs:41), called by read_ptau_header
    cv_pc,              \* "start", "looked" (one lookup), "again" (two)
    cv_q,               \* the modulus looked up
    cv_res              \* the results of the lookups so far

lowerVars == <<order, r1cs, plonk_n_vars, plonk_constraints, plonk_additions,
               pc, s, ci, a, b, c, ta, tb, stage, max_c, iter, k, cs, ra, rb,
               run, prev>>

writeVars == <<n8r, fd_zkey, section_start, w_pc, w_i>>

domainVars == <<pow, domain_size, omega, k1, k2, d_pc>>

mainVars == <<m_pc, m_env, m_result, m_detected>>

readVars == <<rd_calls, rd_res, r1cs_header>>

curveVars == <<cv_pc, cv_q, cv_res>>

fileVars == <<f_in, bin_file, f_pc, f_err, version, n_sections, f_i,
              sections, readVars, curveVars>>

vars == <<lowerVars, writeVars, domainVars, mainVars, fileVars>>

\* The components at rest.
WriteIdle ==
    /\ n8r = 0 /\ fd_zkey = [file |-> <<>>, pos |-> 0]
    /\ section_start = 0 /\ w_pc = "idle" /\ w_i = 0

DomainIdle ==
    /\ pow = 0 /\ domain_size = 0 /\ omega = 0 /\ k1 = 0 /\ k2 = 0
    /\ d_pc = "idle"

MainIdle ==
    /\ m_pc = "idle" /\ m_env = <<>> /\ m_result = "" /\ m_detected = {}

CurveIdle == cv_pc = "idle" /\ cv_q = <<>> /\ cv_res = <<>>

FileIdle ==
    /\ f_in = <<>> /\ bin_file = [file |-> <<>>, pos |-> 0]
    /\ f_pc = "idle" /\ f_err = ""
    /\ version = 0 /\ n_sections = 0 /\ f_i = 0
    /\ sections = <<>>
    /\ rd_calls = 0 /\ rd_res = <<>> /\ r1cs_header = <<>>
    /\ CurveIdle

(***************************************************************************)
(* Bounds of the model.                                                    *)
(***************************************************************************)
FieldOrder == 7
MaxConstraints == 2
MaxOutputs == 1
MaxPubInputs == 1
MaxRerunConstraints == 1
MaxLcWire == 2

(***************************************************************************)
(* Element<Bn128>                                                          *)
(***************************************************************************)
ElementFrom(n) == n % order
Zero == 0
One == 1 % order
Add(x, y) == (x + y) % order
Sub(x, y) == (x + order - y) % order
Mul(x, y) == (x * y) % order
Neg(x) == (order - x) % order
is_zero(x) == x = 0

Last(q) == q[Len(q)]

\* The sequences in which a map with key set S may yield its keys.
Orderings(S) ==
    {f \in [1..Cardinality(S) -> S] :
        \A i, j \in 1..Cardinality(S) : i # j => f[i] # f[j]}

EmptyLC == <<>>

(***************************************************************************)
(* r1cs.rs, helpers of process_constraints                                 *)
(***************************************************************************)
\* r1cs.rs:259-270: each BigUint coefficient becomes an Element
ToElements(lc) == [w \in DOMAIN lc |-> ElementFrom(lc[w])]

normalize(lc) ==
    LET keep == {w \in DOMAIN lc : ~is_zero(lc[w])}
    IN  [w \in keep |-> lc[w]]

join(lc1, kk, lc2) ==
    LET scaled == [w \in DOMAIN lc1 |-> Mul(kk, lc1[w])]
        res == [w \in (DOMAIN lc1) \cup (DOMAIN lc2) |->
                  IF w \in DOMAIN lc1
                  THEN IF w \in DOMAIN lc2 THEN Add(scaled[w], lc2[w])
                                           ELSE scaled[w]
                  ELSE lc2[w]]
    IN  normalize(res)

Digit(d) ==
    CASE d = 0 -> "0" [] d = 1 -> "1" [] d = 2 -> "2" [] d = 3 -> "3"
      [] d = 4 -> "4" [] d = 5 -> "5" [] d = 6 -> "6" [] d = 7 -> "7"
      [] d = 8 -> "8" [] d = 9 -> "9"

RECURSIVE to_string(_)
to_string(n) ==
    IF n < 10 THEN Digit(n) ELSE to_string(n \div 10) \o Digit(n % 10)

\* The loop r1cs.rs:190-198 over keys, from position i on.
RECURSIVE LcTypeLoop(_, _, _, _, _)
LcTypeLoop(lc, keys, i, kacc, n) ==
    IF i > Len(keys) THEN [lc |-> lc, k |-> kacc, n |-> n]
    ELSE LET w == keys[i]
         IN  IF is_zero(lc[w])
             THEN LcTypeLoop([x \in (DOMAIN lc) \ {w} |-> lc[x]],
                             keys, i + 1, kacc, n)
             ELSE IF w = 0
                  THEN LcTypeLoop(lc, keys, i + 1, Add(kacc, lc[w]), n)
                  ELSE LcTypeLoop(lc, keys, i + 1, kacc, n + 1)

\* get_lc_type looking at the constant before the count
LcTypeTag_ConstantFirst(kacc, n) ==
    IF ~is_zero(kacc) THEN "k"
    ELSE IF n > 0 THEN to_string(n) ELSE "0"

LcTypeTag(kacc, n) ==
    IF n > 0 THEN to_string(n)
    ELSE IF ~is_zero(kacc) THEN "k" ELSE "0"

\* get_lc_type on lc whose keys() come out as keys: the map it leaves and
\* the tag it returns.
get_lc_type(lc, keys) ==
    LET res == LcTypeLoop(lc, keys, 1, Zero, 0)
    IN  [lc |-> res.lc, tag |-> LcTypeTag(res.k, res.n)]

\* The loop r1cs.rs:82-88 of reduce_coefs over the entries, from position i.
RECURSIVE SplitLoop(_, _, _, _, _)
SplitLoop(lc, keys, i, kacc, acc) ==
    IF i > Len(keys) THEN [k |-> kacc, cs |-> acc]
    ELSE IF keys[i] = 0
         THEN SplitLoop(lc, keys, i + 1, Add(kacc, lc[keys[i]]), acc)
         ELSE SplitLoop(lc, keys, i + 1, kacc,
                        Append(acc, <<keys[i], lc[keys[i]]>>))

\* the allocation gate with the coefficients not negated
AdditionGate_NotNegated(c1, c2, so) ==
    <<c1[1], c2[1], so, Zero, c1[2], c2[2], One, Zero>>

\* r1cs.rs:105-114: the gate of one allocation
AdditionGate(c1, c2, so) ==
    <<c1[1], c2[1], so, Zero, Neg(c1[2]), Neg(c2[2]), One, Zero>>

\* the wire taken after the increment instead of before it
AllocWire_AfterIncrement == plonk_n_vars + 1

\* r1cs.rs:96: the wire an allocation takes
AllocWire == plonk_n_vars

\* the pair of the new wire put at the front of cs
PushNew_Front(rest, so) == <<(<<so, One>>)>> \o rest

\* r1cs.rs:116: where the pair of the new wire goes
PushNew(rest, so) == Append(rest, <<so, One>>)

\* the padding made of ones
RECURSIVE PadTo_WithOne(_, _, _)
PadTo_WithOne(q, n, v) ==
    IF Len(q) < n THEN PadTo_WithOne(Append(q, 1), n, v) ELSE q

\* r1cs.rs:119-125: unzip, pad to max_c, return
RECURSIVE PadTo(_, _, _)
PadTo(q, n, v) == IF Len(q) < n THEN PadTo(Append(q, v), n, v) ELSE q

ReduceResult ==
    [k |-> k,
     s |-> PadTo([i \in 1..Len(cs) |-> cs[i][1]], max_c, 0),
     coefs |-> PadTo([i \in 1..Len(cs) |-> cs[i][2]], max_c, Zero)]

\* r1cs.rs:144-153
SumGate(res) ==
    <<res.s[1], res.s[2], res.s[3], Zero,
      res.coefs[1], res.coefs[2], res.coefs[3], res.k>>

\* the final gate with ql and qr exchanged
MulGate_SwappedLinear(xa, xb, xc) ==
    <<xa.s[1], xb.s[1], xc.s[1],
      Mul(xa.coefs[1], xb.coefs[1]),
      Mul(xa.k, xb.coefs[1]),
      Mul(xa.coefs[1], xb.k),
      Neg(xc.coefs[1]),
      Sub(Mul(xa.k, xb.k), xc.k)>>

\* r1cs.rs:177-183
MulGate(xa, xb, xc) ==
    <<xa.s[1], xb.s[1], xc.s[1],
      Mul(xa.coefs[1], xb.coefs[1]),
      Mul(xa.coefs[1], xb.k),
      Mul(xa.k, xb.coefs[1]),
      Neg(xc.coefs[1]),
      Sub(Mul(xa.k, xb.k), xc.k)>>

\* the public-input loop counting wires from 0
PublicGate_FromZero(w) == <<w - 1, 0, 0, Zero, One, Zero, Zero, Zero>>

\* r1cs.rs:244-253
PublicGate(w) == <<w, 0, 0, Zero, One, Zero, Zero, Zero>>

n_public == r1cs.header.n_outputs + r1cs.header.n_pub_inputs

NoResult == [k |-> 0, s |-> <<>>, coefs |-> <<>>]

(***************************************************************************)
(* The constraints the runs are given.  n_vars = 6: wire 0 is the constant *)
(* wire, wires 1..5 are signals.                                           *)
(***************************************************************************)
NVars == 6

\* Constraints that lists of any length are made of.
CoreTriples ==
    { \* 0 * 0 = w1
      <<EmptyLC, EmptyLC, (1 :> 1)>>,
      \* w1 * w2 = w3
      <<(1 :> 1), (2 :> 1), (3 :> 1)>>,
      \* (1 + 2 w1 + 3 w2) * (2 + w3) = 3 + w4 + 6 w5
      <<(0 :> 1 @@ 1 :> 2 @@ 2 :> 3), (0 :> 2 @@ 3 :> 1),
        (0 :> 3 @@ 4 :> 1 @@ 5 :> 6)>>,
      \* (w1 + w2 + 2 w3 + w4) * 3 = 4 w1 + w5
      <<(1 :> 1 @@ 2 :> 1 @@ 3 :> 2 @@ 4 :> 1), (0 :> 3),
        (1 :> 4 @@ 5 :> 1)>>,
      \* (2 + 0 w1) * w1 = 0
      <<(0 :> 2 @@ 1 :> 0), (1 :> 1), EmptyLC>> }

\* Constraints that are lowered on their own.
WideTriples ==
    { \* 5 * (w1 + w2) = w3
      <<(0 :> 5), (1 :> 1 @@ 2 :> 1), (3 :> 1)>>,
      \* (w1 + w2 + w3 + w4) * 0 = w5
      <<(1 :> 1 @@ 2 :> 1 @@ 3 :> 1 @@ 4 :> 1), EmptyLC, (5 :> 1)>>,
      \* 0 * 0 = w1 + w2 + w3 + w4 + w5
      <<EmptyLC, EmptyLC, (1 :> 1 @@ 2 :> 1 @@ 3 :> 1 @@ 4 :> 1 @@ 5 :> 1)>>,
      \* 3 * (0 * 1) = w1 + 0 w2
      <<(0 :> 3), (0 :> 0), (1 :> 1 @@ 2 :> 0)>>,
      \* 0 * 0 = 0
      <<EmptyLC, EmptyLC, EmptyLC>>,
      \* (w1 + 0 w2) * (w2 + w3) = w4 + 0 w5
      <<(1 :> 1 @@ 2 :> 0), (2 :> 1 @@ 3 :> 1), (4 :> 1 @@ 5 :> 0)>>,
      \* (w1 + 2 w2 + 3 w3) * w4 = w5
      <<(1 :> 1 @@ 2 :> 2 @@ 3 :> 3), (4 :> 1), (5 :> 1)>> }

\* Every combination over the wires 0..MaxLcWire whose coefficients are 0, 1
\* or order - 1, as the A side or as the B side of a constraint.
SmallLCs ==
    UNION {[D -> {0, 1, FieldOrder - 1}] : D \in SUBSET (0..MaxLcWire)}

ClassifyTriples ==
    {<<lc, (1 :> 1), (3 :> 1)>> : lc \in SmallLCs}
    \cup {<<(1 :> 1), lc, (3 :> 1)>> : lc \in SmallLCs}

Triples == CoreTriples \cup WideTriples \cup ClassifyTriples

\* The triples that longer lists are made of.
ChainTriples ==
    {<<EmptyLC, EmptyLC, (1 :> 1)>>, <<(1 :> 1), (2 :> 1), (3 :> 1)>>}

\* The constraint lists of at most n constraints: any one constraint, two
\* core ones, or a longer chain.
ConstraintLists(n) ==
    UNION {[1..m -> IF m <= 1 THEN Triples
                    ELSE IF m = 2 THEN CoreTriples ELSE ChainTriples] :
              m \in 0..n}

Headers ==
    [n_vars : {NVars}, n_outputs : 0..MaxOutputs,
     n_pub_inputs : 0..MaxPubInputs]

(***************************************************************************)
(* process_constraints                                                     *)
(***************************************************************************)
\* The state process_constraints starts from, r1cs.rs:23-36.
LowerStart(input) ==
    /\ r1cs = input
    /\ plonk_n_vars = input.header.n_vars
    /\ plonk_constraints = <<>>
    /\ plonk_additions = <<>>
    /\ pc = "public"
    /\ s = 1
    /\ ci = 1
    /\ a = EmptyLC /\ b = EmptyLC /\ c = EmptyLC
    /\ ta = "" /\ tb = ""
    /\ stage = "" /\ max_c = 0 /\ iter = <<>>
    /\ k = Zero /\ cs = <<>>
    /\ ra = NoResult /\ rb = NoResult

InitLower ==
    /\ WriteIdle /\ DomainIdle /\ MainIdle /\ FileIdle
    /\ order = FieldOrder
    /\ run = 1 /\ prev = <<>>
    /\ \E h \in Headers, cl \in ConstraintLists(MaxConstraints) :
          LowerStart([header |-> h, constraints |-> cl])

InitRerun ==
    /\ WriteIdle /\ DomainIdle /\ MainIdle /\ FileIdle
    /\ order = FieldOrder
    /\ run = 1 /\ prev = <<>>
    /\ \E h \in Headers, cl \in ConstraintLists(MaxRerunConstraints) :
          LowerStart([header |-> h, constraints |-> cl])

\* r1cs.rs:243-254, one iteration
EmitPublicGate ==
    /\ UNCHANGED <<writeVars, domainVars, mainVars, fileVars>>
    /\ pc = "public" /\ s <= n_public
    /\ plonk_constraints' = Append(plonk_constraints, PublicGate(s))
    /\ s' = s + 1
    /\ UNCHANGED <<order, r1cs, plonk_n_vars, plonk_additions, pc, ci, a, b, c,
                   ta, tb, stage, max_c, iter, k, cs, ra, rb, run, prev>>

\* r1cs.rs:243, the range is exhausted
PublicGatesDone ==
    /\ UNCHANGED <<writeVars, domainVars, mainVars, fileVars>>
    /\ pc = "public" /\ s > n_public
    /\ pc' = "constraints"
    /\ UNCHANGED <<order, r1cs, plonk_n_vars, plonk_constraints,
                   plonk_additions, s, ci, a, b, c, ta, tb, stage, max_c,
                   iter, k, cs, ra, rb, run, prev>>

\* r1cs.rs:257-270 and 225-226: the next constraint is converted and
\* process classifies a and b.
Process ==
    /\ UNCHANGED <<writeVars, domainVars, mainVars, fileVars>>
    /\ pc = "constraints" /\ ci <= Len(r1cs.constraints)
    /\ LET con == r1cs.constraints[ci]
           a0 == ToElements(con[1])
           b0 == ToElements(con[2])
       IN  \E keysa \in Orderings(DOMAIN a0), keysb \in Orderings(DOMAIN b0) :
              /\ a' = get_lc_type(a0, keysa).lc
              /\ ta' = get_lc_type(a0, keysa).tag
              /\ b' = get_lc_type(b0, keysb).lc
              /\ tb' = get_lc_type(b0, keysb).tag
              /\ c' = ToElements(con[3])
    /\ pc' = "dispatch"
    /\ UNCHANGED <<order, r1cs, plonk_n_vars, plonk_constraints,
                   plonk_additions, s, ci, stage, max_c, iter, k, cs, ra, rb,
                   run, prev>>

\* Entry of reduce_coefs(lc, m, ..), r1cs.rs:79-88, called at stage st.
EnterReduce(lc, m, st) ==
    /\ \E keys \in Orderings(DOMAIN lc) :
          /\ iter' = keys
          /\ k' = SplitLoop(lc, keys, 1, Zero, <<>>).k
          /\ cs' = SplitLoop(lc, keys, 1, Zero, <<>>).cs
    /\ max_c' = m
    /\ stage' = st
    /\ pc' = "reduce"

\* r1cs.rs:227-229
SumOfC ==
    /\ UNCHANGED <<writeVars, domainVars, mainVars, fileVars>>
    /\ pc = "dispatch"
    /\ ta = "0" \/ tb = "0"
    /\ c' = normalize(c)
    /\ EnterReduce(normalize(c), 3, "sum")
    /\ UNCHANGED <<order, r1cs, plonk_n_vars, plonk_constraints,
                   plonk_additions, s, ci, a, b, ta, tb, ra, rb, run, prev>>

\* r1cs.rs:230-233
LinearizeA ==
    /\ UNCHANGED <<writeVars, domainVars, mainVars, fileVars>>
    /\ pc = "dispatch"
    /\ ~(ta = "0" \/ tb = "0") /\ ta = "k"
    /\ EnterReduce(join(b, a[0], c), 3, "sum")
    /\ UNCHANGED <<order, r1cs, plonk_n_vars, plonk_constraints,
                   plonk_additions, s, ci, a, b, c, ta, tb, ra, rb, run, prev>>

\* r1cs.rs:234-237
LinearizeB ==
    /\ UNCHANGED <<writeVars, domainVars, mainVars, fileVars>>
    /\ pc = "dispatch"
    /\ ~(ta = "0" \/ tb = "0") /\ ta # "k" /\ tb = "k"
    /\ EnterReduce(join(a, b[0], c), 3, "sum")
    /\ UNCHANGED <<order, r1cs, plonk_n_vars, plonk_constraints,
                   plonk_additions, s, ci, a, b, c, ta, tb, ra, rb, run, prev>>

\* the last branch of process taken without looking at whether b is "0"
MulOfABC_IgnoringZeroB ==
    /\ UNCHANGED <<writeVars, domainVars, mainVars, fileVars>>
    /\ pc = "dispatch"
    /\ ta # "0" /\ ta # "k" /\ tb # "k"
    /\ EnterReduce(a, 1, "mul_a")
    /\ UNCHANGED <<order, r1cs, plonk_n_vars, plonk_constraints,
                   plonk_additions, s, ci, a, b, c, ta, tb, ra, rb, run, prev>>

\* r1cs.rs:238-239 and 173
MulOfABC ==
    /\ UNCHANGED <<writeVars, domainVars, mainVars, fileVars>>
    /\ pc = "dispatch"
    /\ ~(ta = "0" \/ tb = "0") /\ ta # "k" /\ tb # "k"
    /\ EnterReduce(a, 1, "mul_a")
    /\ UNCHANGED <<order, r1cs, plonk_n_vars, plonk_constraints,
                   plonk_additions, s, ci, a, b, c, ta, tb, ra, rb, run, prev>>

\* r1cs.rs:90-117, one iteration of the while loop
ReduceStep ==
    /\ UNCHANGED <<writeVars, domainVars, mainVars, fileVars>>
    /\ pc = "reduce" /\ Len(cs) > max_c
    /\ LET c1 == cs[1]
           c2 == cs[2]
           rest == SubSeq(cs, 3, Len(cs))
           so == AllocWire
       IN  /\ plonk_n_vars' = plonk_n_vars + 1
           /\ plonk_constraints' =
                 Append(plonk_constraints, AdditionGate(c1, c2, so))
           /\ plonk_additions' =
                 Append(plonk_additions, <<c1[1], c2[1], c1[2], c2[2]>>)
           /\ cs' = PushNew(rest, so)
    /\ UNCHANGED <<order, r1cs, pc, s, ci, a, b, c, ta, tb, stage, max_c,
                   iter, k, ra, rb, run, prev>>

\* add_constraint_sum putting its gate in front of the list
EmitSumGate_AtFront ==
    /\ UNCHANGED <<writeVars, domainVars, mainVars, fileVars>>
    /\ pc = "reduce" /\ Len(cs) <= max_c /\ stage = "sum"
    /\ plonk_constraints' = <<SumGate(ReduceResult)>> \o plonk_constraints
    /\ ci' = ci + 1
    /\ pc' = "constraints"
    /\ UNCHANGED <<order, r1cs, plonk_n_vars, plonk_additions, s, a, b, c,
                   ta, tb, stage, max_c, iter, k, cs, ra, rb, run, prev>>

\* r1cs.rs:119-125 then 144-153: reduce_coefs returns to add_constraint_sum
EmitSumGate ==
    /\ UNCHANGED <<writeVars, domainVars, mainVars, fileVars>>
    /\ pc = "reduce" /\ Len(cs) <= max_c /\ stage = "sum"
    /\ plonk_constraints' = Append(plonk_constraints, SumGate(ReduceResult))
    /\ ci' = ci + 1
    /\ pc' = "constraints"
    /\ UNCHANGED <<order, r1cs, plonk_n_vars, plonk_additions, s, a, b, c,
                   ta, tb, stage, max_c, iter, k, cs, ra, rb, run, prev>>

\* r1cs.rs:173-174: the first call returns, the second starts
MulReduceB ==
    /\ UNCHANGED <<writeVars, domainVars, mainVars, fileVars>>
    /\ pc = "reduce" /\ Len(cs) <= max_c /\ stage = "mul_a"
    /\ ra' = ReduceResult
    /\ EnterReduce(b, 1, "mul_b")
    /\ UNCHANGED <<order, r1cs, plonk_n_vars, plonk_constraints,
                   plonk_additions, s, ci, a, b, c, ta, tb, rb, run, prev>>

\* r1cs.rs:174-175: the second call returns, the third starts
MulReduceC ==
    /\ UNCHANGED <<writeVars, domainVars, mainVars, fileVars>>
    /\ pc = "reduce" /\ Len(cs) <= max_c /\ stage = "mul_b"
    /\ rb' = ReduceResult
    /\ EnterReduce(c, 1, "mul_c")
    /\ UNCHANGED <<order, r1cs, plonk_n_vars, plonk_constraints,
                   plonk_additions, s, ci, a, b, c, ta, tb, ra, run, prev>>

\* r1cs.rs:175-183: the third call returns and the gate is pushed
EmitMulGate ==
    /\ UNCHANGED <<writeVars, domainVars, mainVars, fileVars>>
    /\ pc = "reduce" /\ Len(cs) <= max_c /\ stage = "mul_c"
    /\ plonk_constraints' =
          Append(plonk_constraints, MulGate(ra, rb, ReduceResult))
    /\ ci' = ci + 1
    /\ pc' = "constraints"
    /\ UNCHANGED <<order, r1cs, plonk_n_vars, plonk_additions, s, a, b, c,
                   ta, tb, stage, max_c, iter, k, cs, ra, rb, run, prev>>

\* r1cs.rs:288
ReturnLists ==
    /\ UNCHANGED <<writeVars, domainVars, mainVars, fileVars>>
    /\ pc = "constraints" /\ ci > Len(r1cs.constraints)
    /\ pc' = "done"
    /\ UNCHANGED <<order, r1cs, plonk_n_vars, plonk_constraints,
                   plonk_additions, s, ci, a, b, c, ta, tb, stage, max_c,
                   iter, k, cs, ra, rb, run, prev>>

\* process_constraints is called once more on the same R1cs, r1cs.rs:6-36
Rerun ==
    /\ UNCHANGED <<writeVars, domainVars, mainVars, fileVars>>
    /\ pc = "done" /\ run = 1
    /\ run' = 2
    /\ prev' = <<plonk_constraints, plonk_additions>>
    /\ plonk_n_vars' = r1cs.header.n_vars
    /\ plonk_constraints' = <<>>
    /\ plonk_additions' = <<>>
    /\ pc' = "public"
    /\ s' = 1 /\ ci' = 1
    /\ a' = EmptyLC /\ b' = EmptyLC /\ c' = EmptyLC
    /\ ta' = "" /\ tb' = ""
    /\ stage' = "" /\ max_c' = 0 /\ iter' = <<>>
    /\ k' = Zero /\ cs' = <<>>
    /\ ra' = NoResult /\ rb' = NoResult
    /\ UNCHANGED <<order, r1cs>>

NextLower ==
    \/ EmitPublicGate \/ PublicGatesDone \/ Process
    \/ SumOfC \/ LinearizeA \/ LinearizeB \/ MulOfABC
    \/ ReduceStep \/ EmitSumGate \/ MulReduceB \/ MulReduceC \/ EmitMulGate
    \/ ReturnLists

Spec == InitLower /\ [][NextLower]_vars

SpecRerun == InitRerun /\ [][NextLower \/ Rerun]_vars

(***************************************************************************)
(* Bytes                                                                   *)
(***************************************************************************)
\* u32::to_le_bytes, u64::to_le_bytes: n as width little-endian bytes
RECURSIVE to_le_bytes(_, _)
to_le_bytes(n, width) ==
    IF width = 0 THEN <<>>
    ELSE <<n % 256>> \o to_le_bytes(n \div 256, width - 1)

\* u32::from_le_bytes, u64::from_le_bytes
RECURSIVE from_le_bytes(_)
from_le_bytes(bytes) ==
    IF bytes = <<>> THEN 0
    ELSE bytes[1] + 256 * from_le_bytes(Tail(bytes))

\* BigUint::to_bytes_le: the shortest little-endian form, one byte for zero
RECURSIVE to_bytes_le(_)
to_bytes_le(n) ==
    IF n < 256 THEN <<n>> ELSE <<n % 256>> \o to_bytes_le(n \div 256)

\* main.rs:130-134
as_montgomery_bytes(v) == to_bytes_le(v)

\* file.rs:108-112
write_bytes(fd, data) ==
    [file |-> SubSeq(fd.file, 1, fd.pos) \o data
                 \o SubSeq(fd.file, fd.pos + Len(data) + 1, Len(fd.file)),
     pos |-> fd.pos + Len(data)]

\* file.rs:80-106
BinFile_create(magic_type, ver, nsec) ==
    [file |-> magic_type \o to_le_bytes(ver, 4) \o to_le_bytes(nsec, 4),
     pos |-> 12]

Magic_zkey == <<122, 107, 101, 121>>
Magic_ptau == <<112, 116, 97, 117>>
Magic_junk == <<106, 117, 110, 107>>
Magic_invalid == <<255, 116, 97, 117>>

\* BinFile::start_write_section: the id, then 8 bytes kept for the size
start_write_section(fd, id) ==
    write_bytes(write_bytes(fd, to_le_bytes(id, 4)), to_le_bytes(0, 8))

\* BinFile::end_write_section: the size field is patched with the number of
\* bytes written since the section was started
end_write_section(fd, start) ==
    [file |-> SubSeq(fd.file, 1, start - 8)
                 \o to_le_bytes(fd.pos - start, 8)
                 \o SubSeq(fd.file, start + 1, Len(fd.file)),
     pos |-> fd.pos]

(***************************************************************************)
(* write_additions, main.rs:136-174                                        *)
(***************************************************************************)
N8r == 2
MaxAdditions == 2

\* A scalar order that fills n8r bytes.
WriteOrder == 256 ^ N8r - 15

AdditionRecords ==
    {<<x, 2, v1, v2>> : x \in {1, 258},
                        v1 \in {0, 1, 256, WriteOrder - 1},
                        v2 \in {0, 1, 256, WriteOrder - 1}}

AdditionLists == UNION {[1..m -> AdditionRecords] : m \in 0..MaxAdditions}

\* The state of the lowerer when another component runs on its own.
LowerIdle ==
    /\ r1cs = [header |-> [n_vars |-> 0, n_outputs |-> 0, n_pub_inputs |-> 0],
               constraints |-> <<>>]
    /\ plonk_n_vars = 0
    /\ plonk_constraints = <<>>
    /\ pc = "idle"
    /\ s = 1 /\ ci = 1
    /\ a = EmptyLC /\ b = EmptyLC /\ c = EmptyLC
    /\ ta = "" /\ tb = ""
    /\ stage = "" /\ max_c = 0 /\ iter = <<>>
    /\ k = Zero /\ cs = <<>>
    /\ ra = NoResult /\ rb = NoResult
    /\ run = 1 /\ prev = <<>>

\* main.rs:77-78: the zkey file is created and write_additions is called
\* with section 3 and the additions of the lowerer.
InitWrite ==
    /\ LowerIdle /\ DomainIdle /\ MainIdle /\ FileIdle
    /\ order = WriteOrder
    /\ plonk_additions \in AdditionLists
    /\ n8r = N8r
    /\ fd_zkey = BinFile_create(Magic_zkey, 1, 14)
    /\ section_start = 0
    /\ w_pc = "start"
    /\ w_i = 1

\* main.rs:143
WriteStartSection ==
    /\ w_pc = "start"
    /\ fd_zkey' = start_write_section(fd_zkey, 3)
    /\ section_start' = fd_zkey'.pos
    /\ w_pc' = "loop"
    /\ UNCHANGED <<lowerVars, n8r, w_i, domainVars, mainVars, fileVars>>

\* main.rs:150-162: the buffer of one record; the slices &v_bytes[..n8r]
\* are in range
RecordBuffer(rec) ==
    to_le_bytes(rec[1], 4) \o to_le_bytes(rec[2], 4)
       \o SubSeq(as_montgomery_bytes(rec[3]), 1, n8r)
       \o SubSeq(as_montgomery_bytes(rec[4]), 1, n8r)

\* main.rs:147-164, one iteration: the record is written
WriteRecord ==
    /\ w_pc = "loop" /\ w_i <= Len(plonk_additions)
    /\ LET rec == plonk_additions[w_i]
       IN  /\ Len(as_montgomery_bytes(rec[3])) >= n8r
           /\ Len(as_montgomery_bytes(rec[4])) >= n8r
           /\ fd_zkey' = write_bytes(fd_zkey, RecordBuffer(rec))
    /\ w_i' = w_i + 1
    /\ UNCHANGED <<lowerVars, n8r, section_start, w_pc, domainVars, mainVars,
                   fileVars>>

\* main.rs:159 and 162: a slice &v_bytes[..n8r] of a shorter vector panics
WriteRecordPanics ==
    /\ w_pc = "loop" /\ w_i <= Len(plonk_additions)
    /\ LET rec == plonk_additions[w_i]
       IN  \/ Len(as_montgomery_bytes(rec[3])) < n8r
           \/ Len(as_montgomery_bytes(rec[4])) < n8r
    /\ w_pc' = "panicked"
    /\ UNCHANGED <<lowerVars, n8r, fd_zkey, section_start, w_i, domainVars,
                   mainVars, fileVars>>

\* main.rs:171-173
WriteEndSection ==
    /\ w_pc = "loop" /\ w_i > Len(plonk_additions)
    /\ fd_zkey' = end_write_section(fd_zkey, section_start)
    /\ w_pc' = "done"
    /\ UNCHANGED <<lowerVars, n8r, section_start, w_i, domainVars, mainVars,
                   fileVars>>

NextWrite ==
    WriteStartSection \/ WriteRecord \/ WriteRecordPanics \/ WriteEndSection

SpecWrite == InitWrite /\ [][NextWrite]_vars

(***************************************************************************)
(* get_k1_k2, main.rs:83-124                                               *)
(***************************************************************************)
MaxPrime == 29
MaxPow == 3

IsPrime(n) == n > 1 /\ \A d \in 2..(n - 1) : n % d # 0

\* The odd scalar orders the domain setup is run over.
Primes == {p \in 3..MaxPrime : IsPrime(p)}

\* Element::exponentiation: base to the power of the integer e holds
RECURSIVE exponentiation(_, _)
exponentiation(base, e) ==
    IF e = 0 THEN One ELSE Mul(base, exponentiation(base, e - 1))

\* r >> n
RECURSIVE ShiftRight(_, _)
ShiftRight(x, n) == IF n = 0 THEN x ELSE ShiftRight(x \div 2, n - 1)

\* 1 << n
RECURSIVE ShiftLeftOne(_)
ShiftLeftOne(n) == IF n = 0 THEN 1 ELSE 2 * ShiftLeftOne(n - 1)

\* is_included without the comparisons against the cosets of existing
RECURSIVE is_included_NoExisting(_, _, _, _, _)
is_included_NoExisting(kk, existing, ww, cur, left) ==
    IF left = 0 THEN FALSE
    ELSE IF kk = cur THEN TRUE
    ELSE is_included_NoExisting(kk, existing, ww, Mul(cur, ww), left - 1)

\* main.rs:90-109: the loop from the element cur on, with left iterations
\* to go
RECURSIVE is_included(_, _, _, _, _)
is_included(kk, existing, ww, cur, left) ==
    IF left = 0 THEN FALSE
    ELSE IF kk = cur THEN TRUE
    ELSE IF \E i \in 1..Len(existing) : kk = Mul(existing[i], cur) THEN TRUE
    ELSE is_included(kk, existing, ww, Mul(cur, ww), left - 1)

\* main.rs:74: get_k1_k2(&curve.r, cir_power, domain_size), with
\* domain_size = 1 << cir_power (main.rs:54); curve.r is the order of the
\* Elements.
InitDomain ==
    /\ LowerIdle /\ WriteIdle /\ MainIdle /\ FileIdle
    /\ plonk_additions = <<>>
    /\ order \in Primes
    /\ pow \in 1..MaxPow
    /\ domain_size = ShiftLeftOne(pow)
    /\ omega = 0 /\ k1 = 0 /\ k2 = 0
    /\ d_pc = "start"

\* main.rs:84-88 and 112
ComputeOmega ==
    /\ d_pc = "start"
    /\ LET two == Add(One, One)
           exp == ShiftRight(order - 1, pow)
       IN  /\ omega' = exponentiation(two, ElementFrom(exp))
           /\ k1' = two
    /\ d_pc' = "find_k1"
    /\ UNCHANGED <<lowerVars, writeVars, pow, domain_size, k2, mainVars,
                   fileVars>>

\* main.rs:113-115, one iteration
NextK1 ==
    /\ d_pc = "find_k1"
    /\ is_included(k1, <<>>, omega, One, domain_size)
    /\ k1' = Add(k1, One)
    /\ UNCHANGED <<lowerVars, writeVars, pow, domain_size, omega, k2, d_pc,
                   mainVars, fileVars>>

\* main.rs:113 fails, 118
FoundK1 ==
    /\ d_pc = "find_k1"
    /\ ~is_included(k1, <<>>, omega, One, domain_size)
    /\ k2' = Add(k1, One)
    /\ d_pc' = "find_k2"
    /\ UNCHANGED <<lowerVars, writeVars, pow, domain_size, omega, k1,
                   mainVars, fileVars>>

\* main.rs:119-121, one iteration
NextK2 ==
    /\ d_pc = "find_k2"
    /\ is_included(k2, <<k1>>, omega, One, domain_size)
    /\ k2' = Add(k2, One)
    /\ UNCHANGED <<lowerVars, writeVars, pow, domain_size, omega, k1, d_pc,
                   mainVars, fileVars>>

\* main.rs:119 fails, 123
ReturnK1K2 ==
    /\ d_pc = "find_k2"
    /\ ~is_included(k2, <<k1>>, omega, One, domain_size)
    /\ d_pc' = "done"
    /\ UNCHANGED <<lowerVars, writeVars, pow, domain_size, omega, k1, k2,
                   mainVars, fileVars>>

NextDomain == ComputeOmega \/ NextK1 \/ FoundK1 \/ NextK2 \/ ReturnK1K2

SpecDomain == InitDomain /\ [][NextDomain]_vars

(***************************************************************************)
(* main, main.rs:12-81.  m_env holds what the run has read so far, m_result*)
(* is how main ended ("Ok", "Err", or "Panic"), m_detected the failures    *)
(* the run has detected.                                                   *)
(***************************************************************************)
MaxPlonkConstraints == 10
MaxPtauPower == 4

\* (plonk_constraints.len() - 1) as f64, log2, ceil, as u32 when the
\* subtraction wraps to 2^64 - 1
WrappedCirPower == 64

\* main ends with the result res after detecting the failures in failure
Exit(res, failure) ==
    /\ m_pc' = "exit"
    /\ m_result' = res
    /\ m_detected' = m_detected \cup failure

Continue(next) ==
    /\ m_pc' = next
    /\ UNCHANGED <<m_result, m_detected>>

\* (x as f64).log2().ceil() as u32: 0 gives -inf, which the cast saturates
\* to 0
RECURSIVE CeilLog2From(_, _)
CeilLog2From(x, e) ==
    IF ShiftLeftOne(e) >= x THEN e ELSE CeilLog2From(x, e + 1)
CeilLog2(x) == IF x = 0 THEN 0 ELSE CeilLog2From(x, 0)

Max(x, y) == IF x >= y THEN x ELSE y

UnreadEnv ==
    [q |-> "", power |-> 0, has12 |-> FALSE, prime |-> "", n_plonk |-> 0,
     cir_power |-> 0, domain_size |-> 0, short_scalar |-> FALSE]

\* The scalar order of the curve q names (curves.rs:50-55, 62, 71)
CurveR(q) == IF q = "bn128_q" THEN "bn128_r" ELSE "bls12_381_r"

InitMain ==
    /\ LowerIdle /\ WriteIdle /\ DomainIdle /\ FileIdle
    /\ order = FieldOrder
    /\ plonk_additions = <<>>
    /\ m_pc = "read_ptau"
    /\ m_env = UnreadEnv
    /\ m_result = ""
    /\ m_detected = {}

\* main.rs:17: read_bin_file fails (file.rs:137-175) or returns the
\* section table, with or without section 12
ReadPtau ==
    /\ m_pc = "read_ptau"
    /\ \/ /\ Exit("Err", {"reader error"})
          /\ UNCHANGED m_env
       \/ \E has \in BOOLEAN :
             /\ m_env' = [m_env EXCEPT !.has12 = has]
             /\ Continue("ptau_header")
    /\ UNCHANGED <<lowerVars, writeVars, domainVars, fileVars>>

\* main.rs:19-20, file.rs:181-222
ReadPtauHeader ==
    /\ m_pc = "ptau_header"
    /\ \/ \* file.rs:185-192, 194-197, 201-219
          /\ Exit("Err", {"reader error"})
          /\ UNCHANGED m_env
       \/ \* file.rs:199: unwrap of the Err of curves.rs:77
          /\ Exit("Panic", {"unsupported curve"})
          /\ m_env' = [m_env EXCEPT !.q = "other"]
       \/ \E q \in {"bn128_q", "bls12_381_q"}, pw \in 0..MaxPtauPower :
             /\ m_env' = [m_env EXCEPT !.q = q, !.power = pw]
             /\ Continue("read_r1cs")
    /\ UNCHANGED <<lowerVars, writeVars, domainVars, fileVars>>

\* main.rs:26-36: read_bin_file, read_r1cs_fd, read_section
ReadR1cs ==
    /\ m_pc = "read_r1cs"
    /\ \/ /\ Exit("Err", {"reader error"})
          /\ UNCHANGED m_env
       \/ \E pr \in {"bn128_r", "bls12_381_r", "other"} :
             /\ m_env' = [m_env EXCEPT !.prime = pr]
             /\ Continue("lower")
    /\ UNCHANGED <<lowerVars, writeVars, domainVars, fileVars>>

\* main.rs:38-43: process_constraints returns its two lists
LowerConstraints ==
    /\ m_pc = "lower"
    /\ \E n \in 0..MaxPlonkConstraints, sh \in BOOLEAN :
          m_env' = [m_env EXCEPT !.n_plonk = n, !.short_scalar = sh]
    /\ Continue("check_prime")
    /\ UNCHANGED <<lowerVars, writeVars, domainVars, fileVars>>

\* main.rs:46-49
CheckPrime ==
    /\ m_pc = "check_prime"
    /\ IF m_env.prime # CurveR(m_env.q)
       THEN Exit("Ok", {"prime mismatch"})
       ELSE Continue("cir_power")
    /\ UNCHANGED <<lowerVars, writeVars, domainVars, fileVars, m_env>>

\* main.rs:54: 1 << cir_power as a u64; without overflow checks the shift
\* amount is taken modulo 64.
DomainSize(cir_power) == ShiftLeftOne(cir_power % 64)

\* main.rs:51-54.  With no constraint the subtraction overflows: a build
\* with overflow checks panics, one without wraps to 2^64 - 1.
ComputeCirPower ==
    /\ m_pc = "cir_power"
    /\ IF m_env.n_plonk = 0
       THEN \/ /\ Exit("Panic", {})
               /\ UNCHANGED m_env
            \/ /\ m_env' = [m_env EXCEPT
                               !.cir_power = Max(WrappedCirPower, 3),
                               !.domain_size =
                                   DomainSize(Max(WrappedCirPower, 3))]
               /\ Continue("check_power")
       ELSE /\ m_env' = [m_env EXCEPT
                           !.cir_power = Max(CeilLog2(m_env.n_plonk - 1), 3),
                           !.domain_size =
                               DomainSize(Max(CeilLog2(m_env.n_plonk - 1), 3))]
            /\ Continue("check_power")
    /\ UNCHANGED <<lowerVars, writeVars, domainVars, fileVars>>

\* main.rs:58-66
CheckPower ==
    /\ m_pc = "check_power"
    /\ IF m_env.cir_power > m_env.power
       THEN Exit("Ok", {"circuit too big"})
       ELSE Continue("check_section12")
    /\ UNCHANGED <<lowerVars, writeVars, domainVars, fileVars, m_env>>

\* main.rs:69-72
CheckSection12 ==
    /\ m_pc = "check_section12"
    /\ IF ~m_env.has12
       THEN Exit("Ok", {"section 12 absent"})
       ELSE Continue("create_zkey")
    /\ UNCHANGED <<lowerVars, writeVars, domainVars, fileVars, m_env>>

\* main.rs:74-77: k1 and k2 are only printed; BinFile::create fails
\* (file.rs:81-99) or returns the file
CreateZkey ==
    /\ m_pc = "create_zkey"
    /\ \/ Exit("Err", {})
       \/ Continue("write_additions")
    /\ UNCHANGED <<lowerVars, writeVars, domainVars, fileVars, m_env>>

\* main.rs:78-80: write_additions panics on a scalar shorter than n8r bytes
\* (main.rs:159, 162), fails on a write error, or returns
WriteAdditionsStep ==
    /\ m_pc = "write_additions"
    /\ IF m_env.short_scalar
       THEN Exit("Panic", {})
       ELSE \/ Exit("Err", {})
            \/ Exit("Ok", {})
    /\ UNCHANGED <<lowerVars, writeVars, domainVars, fileVars, m_env>>

NextMain ==
    \/ ReadPtau \/ ReadPtauHeader \/ ReadR1cs \/ LowerConstraints
    \/ CheckPrime \/ ComputeCirPower \/ CheckPower \/ CheckSection12
    \/ CreateZkey \/ WriteAdditionsStep

SpecMain == InitMain /\ [][NextMain]_vars

(***************************************************************************)
(* read_bin_file, file.rs:132-179, run on the bytes of the file f_in       *)
(* describes.  f_pc = "ok" is the Ok return, "err" any Err return.         *)
(***************************************************************************)
MaxSections == 3

\* main.rs:17: read_bin_file(ptau_path, "ptau", 1)
expected_type == Magic_ptau
max_version == 1

\* One section as it lies in the file (file.rs:398-406): id, size, payload
SectionBytes(sec) ==
    to_le_bytes(sec.id, 4) \o to_le_bytes(Len(sec.bytes), 8) \o sec.bytes

RECURSIVE SectionsBytes(_)
SectionsBytes(secs) ==
    IF secs = <<>> THEN <<>>
    ELSE SectionBytes(Head(secs)) \o SectionsBytes(Tail(secs))

\* The whole file (file.rs:387-406): magic, version, section count, sections
FileBytes(f) ==
    f.magic \o to_le_bytes(f.version, 4) \o to_le_bytes(f.n_declared, 4)
        \o SectionsBytes(f.sections)

SectionInputs ==
    [id : {3, 12}, bytes : {<<>>, <<170>>, <<187, 187>>}]

SectionLists == UNION {[1..n -> SectionInputs] : n \in 0..MaxSections}

FileInputs ==
    {[magic |-> mg, version |-> v, n_declared |-> Len(secs) + extra,
      sections |-> secs] :
        mg \in {Magic_ptau, Magic_junk, Magic_invalid}, v \in {1, 2}, extra \in {0, 1},
        secs \in SectionLists}

\* read_exact can fill a buffer of len bytes at fd.pos
CanRead(fd, len) == fd.pos + len <= Len(fd.file)

\* file.rs:53-72: the bytes read_bytes, read_u32 and read_u64 consume
read_bytes(fd, len) == SubSeq(fd.file, fd.pos + 1, fd.pos + len)

\* file.rs:56, 63, 70, 75: pos after a read or a skip of len bytes
Advance(fd, len) == [fd EXCEPT !.pos = @ + len]

\* String::from_utf8 on bytes that are each ASCII or an invalid lead byte:
\* Ok(text) or Err
from_utf8(bytes) ==
    [is_ok |-> \A i \in 1..Len(bytes) : bytes[i] < 128, text |-> bytes]

\* The descriptor list of ht replaced instead of extended.
PushSection_Overwrite(tbl, ht, d) ==
    [x \in DOMAIN tbl \cup {ht} |-> IF x = ht THEN <<d>> ELSE tbl[x]]

\* file.rs:170-173: sections.entry(ht).or_default().push(d)
PushSection(tbl, ht, d) ==
    [x \in DOMAIN tbl \cup {ht} |->
        IF x = ht
        THEN (IF ht \in DOMAIN tbl THEN Append(tbl[ht], d) ELSE <<d>>)
        ELSE tbl[x]]

\* read_bin_file returns Err(msg)
Fail(msg) == f_pc' = "err" /\ f_err' = msg

\* The version test that never rejects.
VersionRejected_Never(v, max) == FALSE

\* file.rs:153
VersionRejected(v, max) == v > max

\* file.rs:137: BinFile::open
InitFile ==
    /\ LowerIdle /\ WriteIdle /\ DomainIdle /\ MainIdle
    /\ order = FieldOrder
    /\ plonk_additions = <<>>
    /\ f_in \in FileInputs
    /\ bin_file = [file |-> FileBytes(f_in), pos |-> 0]
    /\ f_pc = "read_type" /\ f_err = ""
    /\ version = 0 /\ n_sections = 0 /\ f_i = 0
    /\ sections = <<>>
    /\ rd_calls = 0 /\ rd_res = <<>> /\ r1cs_header = <<>>
    /\ CurveIdle

\* file.rs:139-150
ReadType ==
    /\ f_pc = "read_type"
    /\ IF ~CanRead(bin_file, 4)
       THEN Fail("io") /\ UNCHANGED bin_file
       ELSE /\ bin_file' = Advance(bin_file, 4)
            /\ LET read_type == from_utf8(read_bytes(bin_file, 4))
               IN  IF ~read_type.is_ok
                   THEN Fail("Invalid UTF-8 in file type")
                   ELSE IF read_type.text # expected_type
                   THEN Fail("Invalid file format")
                   ELSE f_pc' = "read_version" /\ UNCHANGED f_err
    /\ UNCHANGED <<lowerVars, writeVars, domainVars, mainVars, f_in, version,
                   n_sections, f_i, sections, readVars, curveVars>>

\* file.rs:152-159
ReadVersion ==
    /\ f_pc = "read_version"
    /\ IF ~CanRead(bin_file, 4)
       THEN Fail("io") /\ UNCHANGED <<bin_file, version>>
       ELSE /\ version' = from_le_bytes(read_bytes(bin_file, 4))
            /\ bin_file' = Advance(bin_file, 4)
            /\ IF VersionRejected(version', max_version)
               THEN Fail("Version not supported")
               ELSE f_pc' = "read_n_sections" /\ UNCHANGED f_err
    /\ UNCHANGED <<lowerVars, writeVars, domainVars, mainVars, f_in,
                   n_sections, f_i, sections, readVars, curveVars>>

\* file.rs:161-163
ReadNSections ==
    /\ f_pc = "read_n_sections"
    /\ IF ~CanRead(bin_file, 4)
       THEN Fail("io") /\ UNCHANGED <<bin_file, n_sections>>
       ELSE /\ n_sections' = from_le_bytes(read_bytes(bin_file, 4))
            /\ bin_file' = Advance(bin_file, 4)
            /\ f_pc' = "sections" /\ UNCHANGED f_err
    /\ UNCHANGED <<lowerVars, writeVars, domainVars, mainVars, f_in, version,
                   f_i, sections, readVars, curveVars>>

\* file.rs:165-176, one iteration
ReadSectionHeader ==
    /\ f_pc = "sections"
    /\ f_i < n_sections
    /\ IF ~CanRead(bin_file, 12)
       THEN Fail("io") /\ UNCHANGED <<bin_file, f_i, sections>>
       ELSE LET ht == from_le_bytes(read_bytes(bin_file, 4))
                hl == from_le_bytes(read_bytes(Advance(bin_file, 4), 8))
                offset == Advance(bin_file, 12).pos
            IN  /\ sections' = PushSection(sections, ht,
                                           [offset |-> offset, size |-> hl])
                /\ bin_file' = Advance(Advance(bin_file, 12), hl)
                /\ f_i' = f_i + 1
                /\ UNCHANGED <<f_pc, f_err>>
    /\ UNCHANGED <<lowerVars, writeVars, domainVars, mainVars, f_in, version,
                   n_sections, readVars, curveVars>>

\* file.rs:165 ends, 178
ReturnTable ==
    /\ f_pc = "sections"
    /\ f_i = n_sections
    /\ f_pc' = "ok"
    /\ UNCHANGED <<lowerVars, writeVars, domainVars, mainVars, f_in, bin_file,
                   f_err, version, n_sections, f_i, sections, readVars, curveVars>>

NextFile ==
    ReadType \/ ReadVersion \/ ReadNSections \/ ReadSectionHeader
        \/ ReturnTable

SpecFile == InitFile /\ [][NextFile]_vars

(***************************************************************************)
(* get_curve_from_q, curves.rs:41-79.  A BigUint is its little-endian      *)
(* bytes without high zero bytes, so that equal numbers are equal          *)
(* sequences.                                                              *)
(***************************************************************************)
\* The value of an ASCII digit in parse_bytes: '0'..'9', 'a'..'f'
DigitValue(ch) == IF ch >= 97 THEN ch - 87 ELSE ch - 48

\* big * radix + carry on the bytes of big, for radix <= 16 and a digit
\* as carry: cy[i] is the carry out of byte i
MulAdd(big, radix, carry) ==
    LET n == Len(big)
        cy[i \in 0..n] ==
            IF i = 0 THEN carry ELSE (big[i] * radix + cy[i - 1]) \div 256
    IN  [i \in 1..n |-> (big[i] * radix + cy[i - 1]) % 256]
            \o (IF cy[n] = 0 THEN <<>> ELSE <<cy[n]>>)

\* The digits text[lo..hi] appended to the number acc
RECURSIVE ParseRange(_, _, _, _, _)
ParseRange(acc, text, radix, lo, hi) ==
    IF hi < lo THEN acc
    ELSE CHOOSE big \in {MulAdd(prefix, radix, DigitValue(text[hi])) :
                 prefix \in {ParseRange(acc, text, radix, lo, hi - 1)}} : TRUE

\* BigUint::parse_bytes on the first n digits of text, sixteen digits at a
\* time
RECURSIVE ParsePrefix(_, _, _)
ParsePrefix(text, radix, n) ==
    IF n <= 16 THEN ParseRange(<<>>, text, radix, 1, n)
    ELSE CHOOSE big \in {ParseRange(prefix, text, radix, n - 15, n) :
                 prefix \in {ParsePrefix(text, radix, n - 16)}} : TRUE

parse_bytes(text, radix) == ParsePrefix(text, radix, Len(text))

\* BigUint::from_bytes_le: high zero bytes do not count
RECURSIVE BigUint_from_bytes_le(_)
BigUint_from_bytes_le(bytes) ==
    IF bytes = <<>> THEN <<>>
    ELSE IF bytes[Len(bytes)] = 0
    THEN BigUint_from_bytes_le(SubSeq(bytes, 1, Len(bytes) - 1))
    ELSE bytes

\* curves.rs:42-46
bn_128_q_text ==
    <<50, 49, 56, 56, 56, 50, 52, 50, 56, 55, 49, 56, 51, 57, 50, 55, 53,
      50, 50, 50, 50, 52, 54, 52, 48, 53, 55, 52, 53, 50, 53, 55, 50, 55,
      53, 48, 56, 56, 54, 57, 54, 51, 49, 49, 49, 53, 55, 50, 57, 55, 56,
      50, 51, 54, 54, 50, 54, 56, 57, 48, 51, 55, 56, 57, 52, 54, 52, 53,
      50, 50, 54, 50, 48, 56, 53, 56, 51>>
bn_128_q == parse_bytes(bn_128_q_text, 10)

\* curves.rs:48
bls12_381_q_text ==
    <<49, 97, 48, 49, 49, 49, 101, 97, 51, 57, 55, 102, 101, 54, 57, 97, 52,
      98, 49, 98, 97, 55, 98, 54, 52, 51, 52, 98, 97, 99, 100, 55, 54, 52,
      55, 55, 52, 98, 56, 52, 102, 51, 56, 53, 49, 50, 98, 102, 54, 55, 51,
      48, 100, 50, 97, 48, 102, 54, 98, 48, 102, 54, 50, 52, 49, 101, 97,
      98, 102, 102, 102, 101, 98, 49, 53, 51, 102, 102, 102, 102, 98, 57,
      102, 101, 102, 102, 102, 102, 102, 102, 102, 102, 97, 97, 97, 98>>
bls12_381_q == parse_bytes(bls12_381_q_text, 16)

\* curves.rs:50
bn_128_r_text ==
    <<50, 49, 56, 56, 56, 50, 52, 50, 56, 55, 49, 56, 51, 57, 50, 55, 53,
      50, 50, 50, 50, 52, 54, 52, 48, 53, 55, 52, 53, 50, 53, 55, 50, 55,
      53, 48, 56, 56, 53, 52, 56, 51, 54, 52, 52, 48, 48, 52, 49, 54, 48,
      51, 52, 51, 52, 51, 54, 57, 56, 50, 48, 52, 49, 56, 54, 53, 55, 53,
      56, 48, 56, 52, 57, 53, 54, 49, 55>>
bn_128_r == parse_bytes(bn_128_r_text, 10)

\* curves.rs:52-55
bls12_381_r_text ==
    <<55, 51, 101, 100, 97, 55, 53, 51, 50, 57, 57, 100, 55, 100, 52, 56,
      51, 51, 51, 57, 100, 56, 48, 56, 48, 57, 97, 49, 100, 56, 48, 53, 53,
      51, 98, 100, 97, 52, 48, 50, 102, 102, 102, 101, 53, 98, 102, 101,
      102, 102, 102, 102, 102, 102, 102, 102, 48, 48, 48, 48, 48, 48, 48,
      49>>
bls12_381_r == parse_bytes(bls12_381_r_text, 16)

\* The BN128 branch answering with the other curve's word count.
Bn128Curve_WrongN64 ==
    [f1 |-> [n64 |-> 6], q |-> bn_128_q, r |-> bn_128_r, n8q |-> 32,
     n8r |-> 32, fr |-> "Bn128"]

\* curves.rs:59-66
Bn128Curve ==
    [f1 |-> [n64 |-> 4], q |-> bn_128_q, r |-> bn_128_r, n8q |-> 32,
     n8r |-> 32, fr |-> "Bn128"]

\* curves.rs:68-75
Bls12_381Curve ==
    [f1 |-> [n64 |-> 6], q |-> bls12_381_q, r |-> bls12_381_r, n8q |-> 48,
     n8r |-> 32, fr |-> "Bls12_381"]

\* curves.rs:57-78: Ok(curve) or the Err of bail!
get_curve_from_q(q) ==
    IF q = bn_128_q THEN [is_ok |-> TRUE, curve |-> Bn128Curve]
    ELSE IF q = bls12_381_q THEN [is_ok |-> TRUE, curve |-> Bls12_381Curve]
    ELSE [is_ok |-> FALSE, err |-> "Curve not supported"]

\* curves.rs:101-102: the modulus of the test for an unsupported curve
unsupported_q_text ==
    <<49, 50, 51, 52, 53, 54, 55, 56, 57, 48, 49, 50, 51, 52, 53, 54, 55, 56,
      57, 48, 49, 50, 51, 52, 53, 54, 55, 56, 57, 48, 49, 50, 51, 52, 53, 54,
      55, 56, 57, 48>>

\* The number with its byte i increased by one (mod 256)
BumpByte(big, i) == [big EXCEPT ![i] = (@ + 1) % 256]

\* The moduli looked up: the four literals of curves.rs, the numbers that
\* differ from one of them in one byte or lack its high byte, the modulus
\* of the test, and small numbers
CurveInputs ==
    LET literals == {bn_128_q, bls12_381_q, bn_128_r, bls12_381_r}
    IN  literals
        \cup {BigUint_from_bytes_le(BumpByte(x, i)) :
                 x \in literals, i \in 1..32}
        \cup {BigUint_from_bytes_le(SubSeq(x, 1, Len(x) - 1)) : x \in literals}
        \cup {parse_bytes(unsupported_q_text, 16), <<>>, <<1>>}

InitCurve ==
    /\ LowerIdle /\ WriteIdle /\ DomainIdle /\ MainIdle
    /\ order = FieldOrder
    /\ plonk_additions = <<>>
    /\ f_in = <<>> /\ bin_file = [file |-> <<>>, pos |-> 0]
    /\ f_pc = "idle" /\ f_err = ""
    /\ version = 0 /\ n_sections = 0 /\ f_i = 0
    /\ sections = <<>>
    /\ rd_calls = 0 /\ rd_res = <<>> /\ r1cs_header = <<>>
    /\ cv_pc = "start"
    /\ cv_q \in CurveInputs
    /\ cv_res = <<>>

\* get_curve_from_q(&q), curves.rs:41-79
LookupCurve ==
    /\ cv_pc = "start"
    /\ cv_res' = <<get_curve_from_q(cv_q)>>
    /\ cv_pc' = "looked"
    /\ UNCHANGED <<lowerVars, writeVars, domainVars, mainVars, f_in, bin_file,
                   f_pc, f_err, version, n_sections, f_i, sections, readVars,
                   cv_q>>

\* get_curve_from_q(&curve.q) on the q of the curve returned
LookupAgain ==
    /\ cv_pc = "looked"
    /\ cv_res[1].is_ok
    /\ cv_res' = Append(cv_res, get_curve_from_q(cv_res[1].curve.q))
    /\ cv_pc' = "again"
    /\ UNCHANGED <<lowerVars, writeVars, domainVars, mainVars, f_in, bin_file,
                   f_pc, f_err, version, n_sections, f_i, sections, readVars,
                   cv_q>>

NextCurve == LookupCurve \/ LookupAgain

SpecCurve == InitCurve /\ [][NextCurve]_vars

(***************************************************************************)
(* The section readers, file.rs:181-363.  Each is an operator from the     *)
(* BinFile and the section table to the outcome and the BinFile it leaves: *)
(* kind is "Ok" with a value, "Err" with a message, or "Panic".            *)
(***************************************************************************)
Ok(v, fd) == [kind |-> "Ok", value |-> v, msg |-> "", fd |-> fd]
Err(m, fd) == [kind |-> "Err", value |-> <<>>, msg |-> m, fd |-> fd]
Panic(m, fd) == [kind |-> "Panic", value |-> <<>>, msg |-> m, fd |-> fd]

\* fd.file.seek(SeekFrom::Start(p)); fd.pos = p (file.rs:194-195, 239-240,
\* 305-306, 327-328)
SeekTo(fd, p) == [fd EXCEPT !.pos = p]

\* The position reached by the reads of the given sizes from fd.pos on,
\* stopping before the first that read_exact cannot fill
RECURSIVE ReadAll(_, _)
ReadAll(fd, sizes) ==
    IF sizes = <<>> \/ ~CanRead(fd, Head(sizes)) THEN fd
    ELSE ReadAll(Advance(fd, Head(sizes)), Tail(sizes))

\* The sum of the sizes
RECURSIVE SumSizes(_)
SumSizes(sizes) ==
    IF sizes = <<>> THEN 0 ELSE Head(sizes) + SumSizes(Tail(sizes))

\* The number read by read_u32 / read_u64 at byte position p
NumberAt(fd, p, width) == from_le_bytes(SubSeq(fd.file, p + 1, p + width))

\* file.rs:11
R1CS_FILE_HEADER_SECTION == 1

\* file.rs:243-252: the sizes of the reads, n8 being the first number read
R1csHeaderSizes(n8) == <<4, n8, 4, 4, 4, 4, 8, 4>>

\* file.rs:213, 260, 358
SizeMismatch(read_len, size) == read_len # size

\* file.rs:224-279
read_r1cs_header(fd, tbl) ==
    IF R1CS_FILE_HEADER_SECTION \notin DOMAIN tbl
    THEN Err("R1CS header section missing", fd)
    ELSE IF Len(tbl[R1CS_FILE_HEADER_SECTION]) > 1
    THEN Err("R1CS header section duplicated", fd)
    ELSE
      LET section == tbl[R1CS_FILE_HEADER_SECTION][1]
          at == SeekTo(fd, section.offset)
      IN  IF ~CanRead(at, 4) THEN Err("io", at)
          ELSE
            LET n8 == NumberAt(at, at.pos, 4)
                sizes == R1csHeaderSizes(n8)
                end == ReadAll(at, sizes)
                o == section.offset + 4 + n8
            IN  IF end.pos # at.pos + SumSizes(sizes) THEN Err("io", end)
                ELSE IF SizeMismatch(end.pos - section.offset, section.size)
                THEN Err("Invalid R1CS header section size", end)
                ELSE Ok([n8 |-> n8,
                         prime |-> BigUint_from_bytes_le(
                                       SubSeq(at.file, at.pos + 5,
                                              at.pos + 4 + n8)),
                         n_vars |-> NumberAt(at, o, 4),
                         n_outputs |-> NumberAt(at, o + 4, 4),
                         n_pub_inputs |-> NumberAt(at, o + 8, 4),
                         n_prv_inputs |-> NumberAt(at, o + 12, 4),
                         n_labels |-> NumberAt(at, o + 16, 8),
                         n_constraints |-> NumberAt(at, o + 24, 4),
                         use_custom_gates |-> 4 \in DOMAIN tbl
                                                /\ 5 \in DOMAIN tbl],
                        end)

\* file.rs:181-222
read_ptau_header(fd, tbl) ==
    IF 1 \notin DOMAIN tbl
    THEN Err("File has no header section (1)", fd)
    ELSE IF Len(tbl[1]) > 1
    THEN Err("File has more than one header section", fd)
    ELSE
      LET section == tbl[1][1]
          at == SeekTo(fd, section.offset)
          got_n8 == ReadAll(at, <<4>>)
          n8 == NumberAt(at, at.pos, 4)
          got_q == ReadAll(got_n8, <<n8>>)
          q_biguint == BigUint_from_bytes_le(
                           SubSeq(at.file, at.pos + 5, at.pos + 4 + n8))
          found == get_curve_from_q(q_biguint)
          end == ReadAll(got_q, <<4, 4>>)
      IN  IF got_n8.pos # at.pos + 4 THEN Err("io", got_n8)
          ELSE IF got_q.pos # got_n8.pos + n8 THEN Err("io", got_q)
          ELSE IF ~found.is_ok THEN Panic("unwrap on Err", got_q)
          ELSE IF found.curve.f1.n64 * 8 # n8 THEN Err("Invalid size", got_q)
          ELSE IF end.pos # got_q.pos + 8 THEN Err("io", end)
          ELSE IF SizeMismatch(end.pos - section.offset, section.size)
          THEN Err("Invalid PTau header size", end)
          ELSE Ok(<<found.curve, NumberAt(at, got_q.pos, 4),
                    NumberAt(at, got_q.pos + 4, 4)>>, end)

\* lc.insert(idx, coeff), file.rs:351
LcInsert(lc, idx, coeff) ==
    [x \in DOMAIN lc \cup {idx} |-> IF x = idx THEN coeff ELSE lc[x]]

\* file.rs:343-352: n_left entries parsed from buf at cursor into lc; a
\* slice that ends beyond buf panics
RECURSIVE ParseEntries(_, _, _, _, _)
ParseEntries(buf, n8, cursor, n_left, lc) ==
    IF n_left = 0 THEN [panic |-> FALSE, cursor |-> cursor, lc |-> lc]
    ELSE IF cursor + 4 > Len(buf) \/ cursor + 4 + n8 > Len(buf)
    THEN [panic |-> TRUE, cursor |-> cursor, lc |-> lc]
    ELSE ParseEntries(buf, n8, cursor + 4 + n8, n_left - 1,
             LcInsert(lc,
                      from_le_bytes(SubSeq(buf, cursor + 1, cursor + 4)),
                      BigUint_from_bytes_le(
                          SubSeq(buf, cursor + 5, cursor + 4 + n8))))

\* file.rs:339-353: the linear combinations left of one triple
RECURSIVE ParseTriple(_, _, _, _, _)
ParseTriple(buf, n8, cursor, lcs_left, triple) ==
    IF lcs_left = 0
    THEN [panic |-> FALSE, cursor |-> cursor, triple |-> triple]
    ELSE IF cursor + 4 > Len(buf)
    THEN [panic |-> TRUE, cursor |-> cursor, triple |-> triple]
    ELSE
      LET n_idx == from_le_bytes(SubSeq(buf, cursor + 1, cursor + 4))
          lc == ParseEntries(buf, n8, cursor + 4, n_idx, <<>>)
      IN  IF lc.panic
          THEN [panic |-> TRUE, cursor |-> lc.cursor, triple |-> triple]
          ELSE ParseTriple(buf, n8, lc.cursor, lcs_left - 1,
                           Append(triple, lc.lc))

\* file.rs:337-355: the constraints left
RECURSIVE ParseConstraints(_, _, _, _, _)
ParseConstraints(buf, n8, cursor, n_left, constraints) ==
    IF n_left = 0
    THEN [panic |-> FALSE, cursor |-> cursor, constraints |-> constraints]
    ELSE
      LET triple == ParseTriple(buf, n8, cursor, 3, <<>>)
      IN  IF triple.panic
          THEN [panic |-> TRUE, cursor |-> triple.cursor,
                constraints |-> constraints]
          ELSE ParseConstraints(buf, n8, triple.cursor, n_left - 1,
                                Append(constraints, triple.triple))

\* file.rs:315-363
read_constraints(fd, tbl, hdr) ==
    IF 2 \notin DOMAIN tbl THEN Err("Missing constraints section", fd)
    ELSE
      LET section == tbl[2][1]
          at == SeekTo(fd, section.offset)
          end == Advance(at, section.size)
          buf == read_bytes(at, section.size)
          parsed == ParseConstraints(buf, hdr.n8, 0, hdr.n_constraints, <<>>)
      IN  IF ~CanRead(at, section.size) THEN Err("io", at)
          ELSE IF parsed.panic THEN Panic("range end out of range", end)
          ELSE IF SizeMismatch(parsed.cursor, section.size)
          THEN Err("Unexpected constraint section size", end)
          ELSE Ok(parsed.constraints, end)

\* Option<u64>
None == [is_some |-> FALSE, v |-> 0]
Some(x) == [is_some |-> TRUE, v |-> x]
unwrap_or(opt, default) == IF opt.is_some THEN opt.v ELSE default

\* file.rs:296
OutOfBounds(off, len, size) == off + len > size

\* file.rs:281-313.  section.size - off (file.rs:294) is computed whether
\* or not length is given; when off > size a build with overflow checks
\* panics there, and one without wraps to 2^64 - (off - size): that is
\* dropped if length is given, and otherwise passes the test of file.rs:296
\* (off + len wraps back to size) and the vec! of file.rs:308 panics on a
\* capacity beyond isize::MAX.
read_section(fd, tbl, section_id, offset, length, overflow_checks) ==
    IF section_id \notin DOMAIN tbl THEN Err("Section not found", fd)
    ELSE
      LET section == tbl[section_id][1]
          off == unwrap_or(offset, 0)
      IN  IF off > section.size /\ overflow_checks
          THEN Panic("attempt to subtract with overflow", fd)
          ELSE IF off > section.size /\ ~length.is_some
          THEN Panic("capacity overflow", SeekTo(fd, section.offset + off))
          ELSE
            LET len == IF length.is_some THEN length.v
                       ELSE section.size - off
                at == SeekTo(fd, section.offset + off)
            IN  IF OutOfBounds(off, len, section.size)
                THEN Err("Out-of-bounds section read", fd)
                ELSE IF ~CanRead(at, len) THEN Err("io", at)
                ELSE Ok(read_bytes(at, len), Advance(at, len))

(***************************************************************************)
(* The files the section readers are run on, and the runs: read_bin_file,  *)
(* then reader calls on the BinFile and the table it returned.             *)
(***************************************************************************)
FileN8 == 1
MaxFileConstraints == 1
MaxCalls == 2
MaxOff == 3

\* An R1CS header section (the layout file.rs:243-252 reads)
R1csHeaderBytes(n_constraints) ==
    to_le_bytes(FileN8, 4) \o to_le_bytes(7, FileN8) \o to_le_bytes(4, 4)
        \o to_le_bytes(1, 4) \o to_le_bytes(1, 4) \o to_le_bytes(1, 4)
        \o to_le_bytes(4, 8) \o to_le_bytes(n_constraints, 4)

\* A PTau header section (the layout file.rs:196-210 reads) for the modulus
\* q written on n8 bytes
PtauHeaderBytes(q, n8) ==
    to_le_bytes(n8, 4) \o q \o [i \in 1..(n8 - Len(q)) |-> 0]
        \o to_le_bytes(3, 4) \o to_le_bytes(4, 4)

\* One linear combination, given as its <<idx, coeff>> pairs (the layout
\* file.rs:340-350 reads)
RECURSIVE EntriesBytes(_)
EntriesBytes(pairs) ==
    IF pairs = <<>> THEN <<>>
    ELSE to_le_bytes(Head(pairs)[1], 4) \o to_le_bytes(Head(pairs)[2], FileN8)
            \o EntriesBytes(Tail(pairs))

LcBytes(pairs) == to_le_bytes(Len(pairs), 4) \o EntriesBytes(pairs)

\* The constraints section of n copies of the constraint w1 * w2 = 2 w3 + w1
RECURSIVE ConstraintsBytes(_)
ConstraintsBytes(n) ==
    IF n = 0 THEN <<>>
    ELSE LcBytes(<<<<1, 1>>>>) \o LcBytes(<<<<2, 1>>>>)
            \o LcBytes(<<<<3, 2>>, <<1, 1>>>>) \o ConstraintsBytes(n - 1)

\* The payload with its last bytes dropped (by < 0) or a byte added
Resize(bytes, by) ==
    IF by > 0 THEN bytes \o <<0>>
    ELSE SubSeq(bytes, 1, IF Len(bytes) + by < 0 THEN 0 ELSE Len(bytes) + by)

R1csHeaderSections ==
    {[id |-> 1, bytes |-> Resize(R1csHeaderBytes(n), by)] :
        n \in 0..MaxFileConstraints, by \in {-1, 0, 1}}

PtauHeaderSections ==
    {[id |-> 1, bytes |-> Resize(PtauHeaderBytes(qn[1], qn[2]), by)] :
        qn \in {<<bn_128_q, 32>>, <<bls12_381_q, 48>>, <<bn_128_r, 32>>,
                <<bn_128_q, 33>>},
        by \in {-9, -1, 0, 1}}

ConstraintSections ==
    {[id |-> 2, bytes |-> Resize(ConstraintsBytes(n), by)] :
        n \in 0..MaxFileConstraints, by \in {-1, 0, 1}}

OtherSection == [id |-> 12, bytes |-> <<170, 187>>]

FileOf(secs) ==
    [magic |-> Magic_ptau, version |-> 1, n_declared |-> Len(secs),
     sections |-> secs]

\* The files the structured readers are run on
ReadFiles ==
    {FileOf(secs) :
        secs \in {<<h>> : h \in R1csHeaderSections \cup PtauHeaderSections}
                 \cup {<<h, OtherSection>> : h \in PtauHeaderSections}
                 \cup {<<cn>> : cn \in ConstraintSections}
                 \cup {<<h, h>> : h \in R1csHeaderSections}
                 \cup {<<h, cn>> : h \in R1csHeaderSections,
                                  cn \in ConstraintSections}
                 \cup {<<cn, h, OtherSection>> : h \in R1csHeaderSections,
                                               cn \in ConstraintSections}}

\* The files read_section is run on
SectionFiles ==
    {FileOf(secs) :
        secs \in {<<OtherSection>>}
                 \cup {<<cn, OtherSection>> : cn \in ConstraintSections}
                 \cup {<<OtherSection, cn, cn>> : cn \in ConstraintSections}}

Options == {None} \cup {Some(x) : x \in 0..MaxOff}

\* file.rs:137: read_bin_file opens one of the files
OpenOneOf(files) ==
    /\ LowerIdle /\ WriteIdle /\ DomainIdle /\ MainIdle
    /\ order = FieldOrder
    /\ plonk_additions = <<>>
    /\ f_in \in files
    /\ bin_file = [file |-> FileBytes(f_in), pos |-> 0]
    /\ f_pc = "read_type" /\ f_err = ""
    /\ version = 0 /\ n_sections = 0 /\ f_i = 0
    /\ sections = <<>>
    /\ rd_calls = 0 /\ rd_res = <<>> /\ r1cs_header = <<>>
    /\ CurveIdle

\* A reader call fn(args) returns res
Returned(fn, args, res) ==
    /\ f_pc = "ok"
    /\ rd_calls < MaxCalls
    /\ rd_calls' = rd_calls + 1
    /\ rd_res' = [fn |-> fn, args |-> args, kind |-> res.kind,
                  value |-> res.value, msg |-> res.msg,
                  pos_before |-> bin_file.pos]
    /\ bin_file' = res.fd
    /\ UNCHANGED <<lowerVars, writeVars, domainVars, mainVars, f_in, f_pc,
                   f_err, version, n_sections, f_i, sections, curveVars>>

\* file.rs:224-279; main.rs:29, file.rs:366
CallReadR1csHeader ==
    LET res == read_r1cs_header(bin_file, sections)
    IN  /\ Returned("read_r1cs_header", <<>>, res)
        /\ r1cs_header' = IF res.kind = "Ok" THEN <<res.value>>
                          ELSE r1cs_header

\* file.rs:181-222; main.rs:19-20
CallReadPtauHeader ==
    /\ Returned("read_ptau_header", <<>>, read_ptau_header(bin_file, sections))
    /\ UNCHANGED r1cs_header

\* file.rs:315-363; file.rs:367: called with the header read before
CallReadConstraints ==
    /\ Len(r1cs_header) = 1
    /\ Returned("read_constraints", <<>>,
                read_constraints(bin_file, sections, r1cs_header[1]))
    /\ UNCHANGED r1cs_header

\* file.rs:281-313; main.rs:36
CallReadSection ==
    /\ \E id \in {2, 12, 13}, offset \in Options, length \in Options,
          overflow_checks \in BOOLEAN :
          Returned("read_section", <<id, offset, length>>,
                   read_section(bin_file, sections, id, offset, length,
                                overflow_checks))
    /\ UNCHANGED r1cs_header

InitRead == OpenOneOf(ReadFiles)

NextRead ==
    \/ NextFile
    \/ CallReadR1csHeader \/ CallReadPtauHeader \/ CallReadConstraints

SpecRead == InitRead /\ [][NextRead]_vars

InitSection == OpenOneOf(SectionFiles)

NextSection == NextFile \/ CallReadSection

SpecSection == InitSection /\ [][NextSection]_vars

(***************************************************************************)
(* Properties of process_constraints                                       *)
(***************************************************************************)
Wires(g) == <<g[1], g[2], g[3]>>
Selectors(g) == <<g[4], g[5], g[6], g[7], g[8]>>

\* C1: two runs of process_constraints on the same R1CS return identical
\* plonk_constraints and identical plonk_additions, entry by entry and in
\* the same order, whatever order the maps yield their entries in.
C1_Determinism ==
    (run = 2 /\ pc = "done") =>
        /\ plonk_constraints = prev[1]
        /\ plonk_additions = prev[2]

\* The gate that record j of plonk_additions stands for.
GateOfAddition(j) ==
    LET rec == plonk_additions[j]
    IN  <<rec[1], rec[2], r1cs.header.n_vars + j - 1,
          0, (order - rec[3]) % order, (order - rec[4]) % order, 1, 0>>

\* C2: every record (a, b, v1, v2) of plonk_additions is appended in the
\* same step as one gate with sl = a, sr = b, so = the wire allocated for
\* the record and selectors (0, -v1, -v2, 1, 0), and plonk_constraints
\* holds exactly one such gate per record.
C2_AdditionCorrectness ==
    /\ [](\A j \in 1..Len(plonk_additions) :
             Cardinality({g \in 1..Len(plonk_constraints) :
                             plonk_constraints[g] = GateOfAddition(j)}) = 1)
    /\ [][plonk_additions' # plonk_additions =>
             /\ Len(plonk_additions') = Len(plonk_additions) + 1
             /\ SubSeq(plonk_additions', 1, Len(plonk_additions))
                   = plonk_additions
             /\ Len(plonk_constraints') = Len(plonk_constraints) + 1
             /\ LET rec == Last(plonk_additions')
                    g == Last(plonk_constraints')
                IN  /\ Wires(g) = <<rec[1], rec[2], plonk_n_vars>>
                    /\ Selectors(g) = <<0, (order - rec[3]) % order,
                                        (order - rec[4]) % order, 1, 0>>]_vars

C2_Witness ==
    /\ pc = "done"
    /\ Len(plonk_additions) >= 2
    /\ \E j \in 1..Len(plonk_additions) : plonk_additions[j][3] > 1

\* C3: every auxiliary wire allocated equals the value plonk_n_vars had
\* just before the allocation, the first one is n_vars and each later one
\* is one larger than the one before, and plonk_n_vars - n_vars is the
\* length of plonk_additions (in particular at the end).
C3_WireMonotonicity ==
    /\ [](plonk_n_vars - r1cs.header.n_vars = Len(plonk_additions))
    /\ [][(plonk_n_vars' # plonk_n_vars
             \/ plonk_additions' # plonk_additions) =>
             /\ Len(plonk_additions') = Len(plonk_additions) + 1
             /\ plonk_n_vars' = plonk_n_vars + 1
             /\ Last(plonk_constraints')[3] = plonk_n_vars
             /\ Last(plonk_constraints')[3]
                   = r1cs.header.n_vars + Len(plonk_additions)
             /\ Last(cs')[1] = plonk_n_vars]_vars

C3_Witness ==
    /\ pc = "done"
    /\ Len(plonk_additions) >= 3
    /\ plonk_n_vars = r1cs.header.n_vars + 3

\* C4: the first n_public = n_outputs + n_pub_inputs entries of
\* plonk_constraints are, for i = 1..n_public in increasing order, the gate
\* (i, 0, 0, 0, 1, 0, 0, 0), and no gate derived from a constraint is
\* pushed before the last of them.
C4_PublicInputGates ==
    /\ pc = "public" =>
          plonk_constraints = [i \in 1..(s - 1) |-> <<i, 0, 0, 0, 1, 0, 0, 0>>]
    /\ pc # "public" =>
          /\ Len(plonk_constraints) >= n_public
          /\ \A i \in 1..n_public :
                plonk_constraints[i] = <<i, 0, 0, 0, 1, 0, 0, 0>>
    /\ pc = "done" =>
          Len(plonk_constraints) >= n_public + Len(r1cs.constraints)

C4_Witness ==
    /\ pc = "done"
    /\ n_public = 2
    /\ Len(plonk_constraints) > n_public + 1

\* The scenario S6: one constraint with A = {} and
\* C = {1:1, 2:1, 3:1, 4:1, 5:1}, lowered with the entries of C consumed in
\* ascending wire order.
S6Lowered ==
    /\ pc = "done"
    /\ Len(r1cs.constraints) = 1
    /\ r1cs.constraints[1][1] = EmptyLC
    /\ r1cs.constraints[1][3]
          = (1 :> 1 @@ 2 :> 1 @@ 3 :> 1 @@ 4 :> 1 @@ 5 :> 1)
    /\ iter = <<1, 2, 3, 4, 5>>

\* C5 as claimed: in scenario S6 reduce_coefs(C, 3) allocates exactly one
\* wire, n_vars, with record (1, 2, 1, 1); the final sum gate uses wires
\* (3, 4, n_vars); plonk_additions has length 1 and plonk_n_vars has grown
\* by 1.
C5_OneAllocation ==
    S6Lowered =>
        /\ plonk_additions = << <<1, 2, 1, 1>> >>
        /\ plonk_n_vars = r1cs.header.n_vars + 1
        /\ Wires(Last(plonk_constraints)) = <<3, 4, r1cs.header.n_vars>>

\* C5 as amended: in scenario S6 reduce_coefs(C, 3) allocates exactly two
\* wires, n_vars and n_vars + 1, with records (1, 2, 1, 1) and
\* (3, 4, 1, 1); the final sum gate uses wires (5, n_vars, n_vars + 1);
\* plonk_additions has length 2 and plonk_n_vars has grown by 2.
C5_TwoAllocations ==
    S6Lowered =>
        /\ plonk_additions = << <<1, 2, 1, 1>>, <<3, 4, 1, 1>> >>
        /\ plonk_n_vars = r1cs.header.n_vars + 2
        /\ Len(plonk_constraints) = n_public + 3
        /\ Wires(plonk_constraints[n_public + 1])
              = <<1, 2, r1cs.header.n_vars>>
        /\ Wires(plonk_constraints[n_public + 2])
              = <<3, 4, r1cs.header.n_vars + 1>>
        /\ Wires(Last(plonk_constraints))
              = <<5, r1cs.header.n_vars, r1cs.header.n_vars + 1>>
        /\ Selectors(Last(plonk_constraints)) = <<0, 1, 1, 1, 0>>

C5_Witness == S6Lowered

\* What get_lc_type must leave of lc0 and return for it.
Classified(lc0, lc1, tag) ==
    LET nz == {w \in DOMAIN lc0 : lc0[w] % order # 0}
        n == Cardinality(nz \ {0})
    IN  /\ DOMAIN lc1 = nz
        /\ \A w \in nz : lc1[w] = lc0[w] % order
        /\ (tag = "0") <=> (nz = {})
        /\ (tag = "k") <=> (nz = {0})
        /\ (tag \notin {"0", "k"}) => (n > 0 /\ tag = ToString(n))

\* C9: get_lc_type(lc) removes every zero-coefficient entry from lc and
\* returns "0" exactly when no non-zero entry remains, "k" exactly when the
\* only non-zero entry is wire 0, and otherwise the decimal count of the
\* entries with wire # 0 and non-zero coefficient.
C9_ClassificationSoundness ==
    pc = "dispatch" =>
        /\ Classified(r1cs.constraints[ci][1], a, ta)
        /\ Classified(r1cs.constraints[ci][2], b, tb)

C9_Witness ==
    /\ pc = "dispatch"
    /\ ta = "2"
    /\ Cardinality(DOMAIN r1cs.constraints[ci][1]) = 3
    /\ 0 \in DOMAIN r1cs.constraints[ci][1]
    /\ r1cs.constraints[ci][1][0] = 0

(***************************************************************************)
(* Properties of write_additions                                           *)
(***************************************************************************)
\* v as exactly n little-endian bytes, zero-padded at the high end
RECURSIVE ShiftRightBytes(_, _)
ShiftRightBytes(v, i) == IF i = 0 THEN v ELSE ShiftRightBytes(v \div 256, i - 1)

FixedWidth(v, n) == [i \in 1..n |-> ShiftRightBytes(v, i - 1) % 256]

RECURSIVE EncodedAdditions(_)
EncodedAdditions(list) ==
    IF list = <<>> THEN <<>>
    ELSE FixedWidth(list[1][1], 4) \o FixedWidth(list[1][2], 4)
           \o FixedWidth(list[1][3], n8r) \o FixedWidth(list[1][4], n8r)
           \o EncodedAdditions(Tail(list))

\* C6: for every list of additions with scalars below r, write_additions
\* writes, in list order, one record per entry: a and b as 4 little-endian
\* bytes each, v1 and v2 as exactly n8r little-endian bytes each; the
\* records are contiguous and the section's size is
\* |plonk_additions| * (8 + 2 * n8r).
C6_AdditionsEncoding ==
    w_pc \in {"done", "panicked"} =>
        /\ w_pc = "done"
        /\ SubSeq(fd_zkey.file, section_start + 1, Len(fd_zkey.file))
              = EncodedAdditions(plonk_additions)
        /\ SubSeq(fd_zkey.file, section_start - 7, section_start)
              = FixedWidth(Len(plonk_additions) * (8 + 2 * n8r), 8)

(***************************************************************************)
(* Properties of get_k1_k2                                                 *)
(***************************************************************************)
RECURSIVE Power(_, _)
Power(x, n) == IF n = 0 THEN 1 % order ELSE (x * Power(x, n - 1)) % order

\* The subgroup generated by x and the coset of it through y.
Generated(x) == {Power(x, i) : i \in 0..(order - 1)}
Coset(y, x) == {(y * h) % order : h \in Generated(x)}

\* x has multiplicative order n
HasOrder(x, n) ==
    /\ Power(x, n) = 1 % order
    /\ \A m \in 1..(n - 1) : Power(x, m) # 1 % order

\* 2^((r-1) >> pow) mod r
OmegaOf(r, p) == Power(2 % r, ShiftRight(r - 1, p))

\* C7: whenever omega = 2^((r-1) >> pow) mod r has order
\* domain_size = 2^pow, the pair (k1, k2) that get_k1_k2 returns makes
\* <omega>, k1*<omega> and k2*<omega> pairwise disjoint.
C7_CosetsDisjoint ==
    (d_pc = "done" /\ HasOrder(OmegaOf(order, pow), domain_size)) =>
        LET H == Generated(OmegaOf(order, pow))
        IN  /\ H \cap Coset(k1, OmegaOf(order, pow)) = {}
            /\ H \cap Coset(k2, OmegaOf(order, pow)) = {}
            /\ Coset(k1, OmegaOf(order, pow))
                  \cap Coset(k2, OmegaOf(order, pow)) = {}

C7_Witness ==
    /\ d_pc = "done"
    /\ HasOrder(omega, domain_size)
    /\ domain_size = 4
    /\ k2 > k1 + 1

(***************************************************************************)
(* Properties of main                                                      *)
(***************************************************************************)
\* C8: whenever main has ended after detecting a failure (unsupported
\* curve, prime mismatch, circuit too big for the PTau power, section 12
\* absent, a reader error), it has ended with an error result: neither
\* with success nor with a panic.
C8_ErrorPropagation ==
    (m_pc = "exit" /\ m_detected # {}) => m_result = "Err"

(***************************************************************************)
(* Properties of read_bin_file                                             *)
(***************************************************************************)
\* The header of f_in is valid: expected magic, supported version, and the
\* section count of the sections that follow.
ValidHeader ==
    /\ f_in.magic = Magic_ptau
    /\ f_in.version <= max_version
    /\ f_in.n_declared = Len(f_in.sections)

\* The indices, in file order, of the sections of f_in with the given id
Occurrences(id) ==
    SelectSeq([i \in 1..Len(f_in.sections) |-> i],
              LAMBDA i : f_in.sections[i].id = id)

\* The file position of the first payload byte of section i: the 12 header
\* bytes, the sections before it, its own id and size fields
RECURSIVE PayloadStart(_)
PayloadStart(i) ==
    IF i = 1 THEN 24
    ELSE PayloadStart(i - 1) + Len(f_in.sections[i - 1].bytes) + 12

\* C10: for a file holding sections [(id_i, bytes_i)] after a valid header
\* read_bin_file returns a table whose keys are the ids in the file, each
\* mapped to one descriptor per occurrence in file order, with
\* size = |bytes_i|, offset = the position of the first payload byte, and
\* the size bytes at offset equal to bytes_i.
C10_SectionTableRoundTrip ==
    (f_pc \in {"ok", "err"} /\ ValidHeader) =>
        /\ f_pc = "ok"
        /\ DOMAIN sections
              = {f_in.sections[i].id : i \in 1..Len(f_in.sections)}
        /\ \A id \in DOMAIN sections :
              /\ Len(sections[id]) = Len(Occurrences(id))
              /\ \A j \in 1..Len(Occurrences(id)) :
                    LET i == Occurrences(id)[j]
                        d == sections[id][j]
                    IN  /\ d.size = Len(f_in.sections[i].bytes)
                        /\ d.offset = PayloadStart(i)
                        /\ SubSeq(bin_file.file, d.offset + 1,
                                  d.offset + d.size) = f_in.sections[i].bytes

C10_Witness ==
    /\ f_pc = "ok"
    /\ ValidHeader
    /\ Len(f_in.sections) = 3
    /\ f_in.sections[1].id = 3 /\ f_in.sections[1].bytes = <<187, 187>>
    /\ f_in.sections[2].id = 12 /\ f_in.sections[2].bytes = <<170>>
    /\ f_in.sections[3].id = 3 /\ f_in.sections[3].bytes = <<>>
    /\ Len(sections[3]) = 2

\* C11: read_bin_file returns an error, and no section table, whenever the
\* first 4 bytes of the file differ from the expected magic or the version
\* field exceeds max_version; when the magic matches and the version is
\* supported, neither of the two errors is raised.
C11_HeaderValidation ==
    f_pc \in {"ok", "err"} =>
        LET bad_magic == SubSeq(FileBytes(f_in), 1, 4) # Magic_ptau
            bad_version == f_in.version > 1
        IN  /\ bad_magic =>
                 /\ f_pc = "err" /\ sections = <<>>
                 /\ f_err \in {"Invalid file format",
                               "Invalid UTF-8 in file type"}
            /\ (~bad_magic /\ bad_version) =>
                 /\ f_pc = "err" /\ sections = <<>>
                 /\ f_err = "Version not supported"
            /\ (~bad_magic /\ ~bad_version) =>
                 f_err \notin {"Invalid file format",
                               "Invalid UTF-8 in file type",
                               "Version not supported"}

C11_Witness ==
    /\ f_pc = "err"
    /\ f_in.magic = Magic_ptau
    /\ f_in.version = 2
    /\ f_err = "Version not supported"
    /\ Len(f_in.sections) > 0

(***************************************************************************)
(* Properties of the section readers                                       *)
(***************************************************************************)
\* The index in f_in of the first section with the given id, 0 if none
FirstIndex(id) ==
    IF \E i \in 1..Len(f_in.sections) : f_in.sections[i].id = id
    THEN CHOOSE i \in 1..Len(f_in.sections) :
            /\ f_in.sections[i].id = id
            /\ \A j \in 1..(i - 1) : f_in.sections[j].id # id
    ELSE 0

\* How many sections of f_in have the given id
CountOf(id) ==
    Cardinality({i \in 1..Len(f_in.sections) : f_in.sections[i].id = id})

DeclaredSize(id) == Len(f_in.sections[FirstIndex(id)].bytes)

\* The number written on width bytes at position p of the file
RECURSIVE FileNumber(_, _)
FileNumber(p, width) ==
    IF width = 0 THEN 0
    ELSE FileBytes(f_in)[p + 1] + 256 * FileNumber(p + 1, width - 1)

\* Where lcs linear combinations that start at position p of the file end,
\* each a u32 count n followed by n entries of 4 + n8 bytes; beyond the
\* file if the file ends first
RECURSIVE LcsEnd(_, _, _)
LcsEnd(p, n8, lcs) ==
    IF lcs = 0 THEN p
    ELSE IF p + 4 > Len(FileBytes(f_in)) THEN Len(FileBytes(f_in)) + 1
    ELSE LcsEnd(p + 4 + FileNumber(p, 4) * (4 + n8), n8, lcs - 1)

\* The length of the structure the last reader call reads at the start of
\* its section: 4 + n8 + 28 bytes of R1CS header, 4 + n8 + 8 bytes of PTau
\* header, or the n_constraints triples of the header passed
StructureLength ==
    LET start == PayloadStart(FirstIndex(IF rd_res.fn = "read_constraints"
                                         THEN 2 ELSE 1))
    IN  IF rd_res.fn = "read_r1cs_header"
        THEN 4 + FileNumber(start, 4) + 28
        ELSE IF rd_res.fn = "read_ptau_header"
        THEN 4 + FileNumber(start, 4) + 8
        ELSE LcsEnd(start, r1cs_header[1].n8,
                    3 * r1cs_header[1].n_constraints) - start

\* The last call was a structured read that found its section
StructuredRead ==
    /\ rd_calls > 0
    /\ \/ /\ rd_res.fn \in {"read_r1cs_header", "read_ptau_header"}
          /\ CountOf(1) = 1
       \/ /\ rd_res.fn = "read_constraints"
          /\ CountOf(2) >= 1

\* C12: a structured read (read_r1cs_header, read_ptau_header,
\* read_constraints) returns an error whenever the structure it reads at
\* section.offset is longer or shorter than the declared section.size, and
\* returns a value only when the two are equal.
C12_SectionSizeCheck ==
    StructuredRead =>
        LET declared == DeclaredSize(IF rd_res.fn = "read_constraints"
                                     THEN 2 ELSE 1)
        IN  /\ StructureLength # declared => rd_res.kind = "Err"
            /\ rd_res.kind = "Ok" => StructureLength = declared

\* C13: read_section(id, off, len) fails with "Section not found" when no
\* section has the id, fails with the out-of-bounds error whenever
\* off + len > size of the first section with the id (off > size with len
\* omitted included), and otherwise returns the len bytes at
\* section.offset + off and leaves the position at section.offset + off +
\* len; off defaults to 0 and len to size - off.
C13_ReadSectionBounds ==
    (rd_calls > 0 /\ rd_res.fn = "read_section") =>
        LET id == rd_res.args[1]
            off == IF rd_res.args[2].is_some THEN rd_res.args[2].v ELSE 0
        IN  IF CountOf(id) = 0
            THEN rd_res.kind = "Err" /\ rd_res.msg = "Section not found"
            ELSE
              LET size == DeclaredSize(id)
                  start == PayloadStart(FirstIndex(id))
                  len == IF rd_res.args[3].is_some THEN rd_res.args[3].v
                         ELSE IF off <= size THEN size - off ELSE 0
              IN  IF off + len > size \/ off > size
                  THEN /\ rd_res.kind = "Err"
                       /\ rd_res.msg = "Out-of-bounds section read"
                       /\ rd_res.value = <<>>
                  ELSE /\ rd_res.kind = "Ok"
                       /\ rd_res.value = SubSeq(FileBytes(f_in),
                                                start + off + 1,
                                                start + off + len)
                       /\ bin_file.pos = start + off + len

(***************************************************************************)
(* Properties of get_curve_from_q                                          *)
(***************************************************************************)
\* The BN254 base field modulus, least significant byte first
Bn254Modulus ==
    <<71, 253, 124, 216, 22, 140, 32, 60, 141, 202, 113, 104, 145, 106, 129,
      151, 93, 88, 129, 129, 182, 69, 80, 184, 41, 160, 49, 225, 114, 78,
      100, 48>>

\* The BLS12-381 base field modulus, least significant byte first
Bls12_381Modulus ==
    <<171, 170, 255, 255, 255, 255, 254, 185, 255, 255, 83, 177, 254, 255,
      171, 30, 36, 246, 176, 246, 160, 210, 48, 103, 191, 18, 133, 243, 132,
      75, 119, 100, 215, 172, 75, 67, 182, 167, 27, 75, 154, 230, 127, 57,
      234, 17, 1, 26>>

\* C14: get_curve_from_q returns a descriptor exactly for the BN254 and
\* the BLS12-381 modulus; the descriptor's q is the q looked up, and
\* looking that q up again returns the same descriptor; n8q = n64 * 8, with
\* n64 = 4 and n8q = 32 for BN254, 6 and 48 for BLS12-381, and n8r = 32;
\* every other q returns the error "Curve not supported".
C14_CurveIdentification ==
    cv_pc \in {"looked", "again"} =>
        /\ cv_res[1].is_ok <=> cv_q \in {Bn254Modulus, Bls12_381Modulus}
        /\ cv_res[1].is_ok =>
              /\ cv_res[1].curve.q = cv_q
              /\ cv_res[1].curve.n8q = cv_res[1].curve.f1.n64 * 8
              /\ cv_res[1].curve.n8r = 32
              /\ cv_q = Bn254Modulus =>
                    cv_res[1].curve.f1.n64 = 4 /\ cv_res[1].curve.n8q = 32
              /\ cv_q = Bls12_381Modulus =>
                    cv_res[1].curve.f1.n64 = 6 /\ cv_res[1].curve.n8q = 48
        /\ ~cv_res[1].is_ok => cv_res[1].err = "Curve not supported"
        /\ cv_pc = "again" => cv_res[2] = cv_res[1]

C14_Witness ==
    /\ cv_pc = "again"
    /\ cv_q = Bn254Modulus
    /\ cv_res[2].is_ok

(***************************************************************************)
(* What the emitted gates assert.  A witness gives every wire of the R1CS  *)
(* a value of the field, and 1 to wire 0.                                  *)
(***************************************************************************)
\* The signals a constraint mentions.
SignalsOf(con) == (DOMAIN con[1] \cup DOMAIN con[2] \cup DOMAIN con[3]) \ {0}

\* The values the witnesses of con give its signals: for the constraints
\* written out one by one every value of the field, or 0, 1, 2 and -1
\* where more than three signals are mentioned; 0, 1 and -1 for the
\* enumerated constraints.
WitnessValues(con) ==
    IF con \in CoreTriples \cup WideTriples
    THEN IF Cardinality(SignalsOf(con)) <= 3 THEN 0..(order - 1)
         ELSE {0, 1, 2, order - 1}
    ELSE {0, 1, order - 1}

\* The witnesses of con: they differ on the signals con mentions only.
WitnessesOf(con) ==
    {[x \in 0..(NVars - 1) |->
         IF x = 0 THEN 1 ELSE IF x \in SignalsOf(con) THEN v[x] ELSE 0] :
        v \in [SignalsOf(con) -> WitnessValues(con)]}

\* <lc, w> over the wires 0..n.
RECURSIVE ValueUpTo(_, _, _)
ValueUpTo(lc, w, n) ==
    IF n < 0 THEN 0
    ELSE (ValueUpTo(lc, w, n - 1)
            + (IF n \in DOMAIN lc THEN (lc[n] % order) * w[n] ELSE 0)) % order

\* <lc, w>
Value(lc, w) == ValueUpTo(lc, w, NVars - 1)

\* <A, w> * <B, w> = <C, w>
R1csHolds(con, w) ==
    (Value(con[1], w) * Value(con[2], w)) % order = Value(con[3], w)

\* w extended by the first j addition records: the wire allocated for
\* record (a, b, v1, v2) takes the value v1 * w[a] + v2 * w[b].
RECURSIVE Extended(_, _)
Extended(w, j) ==
    IF j = 0 THEN w
    ELSE LET wx == CHOOSE x \in {Extended(w, j - 1)} : TRUE
             rec == plonk_additions[j]
         IN  wx @@ ((r1cs.header.n_vars + j - 1) :>
                       ((rec[3] * wx[rec[1]] + rec[4] * wx[rec[2]]) % order))

\* The gate equation qm*sl*sr + ql*sl + qr*sr + qo*so + qc = 0.
GateHolds(g, wx) ==
    (g[4] * wx[g[1]] * wx[g[2]] + g[5] * wx[g[1]] + g[6] * wx[g[2]]
       + g[7] * wx[g[3]] + g[8]) % order = 0

\* All the gates after the public-input gates hold for w extended by the
\* addition records.
EmittedHold(w) ==
    LET wx == CHOOSE x \in {Extended(w, Len(plonk_additions))} : TRUE
    IN  \A g \in (n_public + 1)..Len(plonk_constraints) :
           GateHolds(plonk_constraints[g], wx)

\* The class of a combination: "0", "k" or "n".
ClassOf(lc) ==
    LET nz == {x \in DOMAIN lc : lc[x] % order # 0}
    IN  IF nz = {} THEN "0" ELSE IF nz = {0} THEN "k" ELSE "n"

\* One constraint has been lowered: con is the constraint.
LoweredAlone(con) ==
    /\ pc = "done"
    /\ Len(r1cs.constraints) = 1
    /\ r1cs.constraints[1] = con

\* The constraint is linearized by the constant of side x; y is the other.
LinearizedBy(con, x, y) ==
    /\ ClassOf(con[x]) = "k"
    /\ ClassOf(con[y]) # "0"
    /\ x = 2 => ClassOf(con[y]) # "k"

\* C15: when A classifies as "k" (k = A[0]) and B does not classify as
\* "0", the sum gate on join(B, k, C) and its addition gates assert
\* k * <B, w> - <C, w> = 0, so a witness extended by the addition records
\* satisfies them exactly when <A, w> * <B, w> = <C, w>; the same with A
\* and B exchanged when B is "k".
C15_LinearizationByConstant ==
    \A con \in {x \in Triples : LoweredAlone(x)} :
       \A x \in 1..2 :
          LinearizedBy(con, x, 3 - x) =>
             \A w \in WitnessesOf(con) :
                /\ EmittedHold(w) <=>
                      ((con[x][0] % order) * Value(con[3 - x], w)) % order
                         = Value(con[3], w)
                /\ EmittedHold(w) <=> R1csHolds(con, w)

\* The constraint was lowered on its own by add_constraint_mul.
LoweredByMul ==
    /\ pc = "done"
    /\ Len(r1cs.constraints) = 1
    /\ ClassOf(r1cs.constraints[1][1]) = "n"
    /\ ClassOf(r1cs.constraints[1][2]) = "n"

\* C16: where neither A nor B classifies as "0" or "k", add_constraint_mul
\* reduces A, B and C each to one wire and a constant, (ka, sa, ca),
\* (kb, sb, cb), (kc, sc, cc), and emits one final gate with wires
\* (sa, sb, sc) and selectors qm = ca*cb, ql = ca*kb, qr = ka*cb, qo = -cc,
\* qc = ka*kb - kc; a witness extended by the addition records satisfies
\* the emitted gates exactly when <A, w> * <B, w> = <C, w>.
C16_MultiplicationGate ==
    LoweredByMul =>
        LET con == r1cs.constraints[1]
            g == Last(plonk_constraints)
            rc == ReduceResult
            ka == ra.k  sa == ra.s[1]  ca == ra.coefs[1]
            kb == rb.k  sb == rb.s[1]  cb == rb.coefs[1]
            kc == rc.k  sc == rc.s[1]  cc == rc.coefs[1]
        IN  /\ stage = "mul_c"
            /\ Len(ra.s) = 1 /\ Len(rb.s) = 1 /\ Len(rc.s) = 1
            /\ Len(ra.coefs) = 1 /\ Len(rb.coefs) = 1 /\ Len(rc.coefs) = 1
            /\ Len(plonk_constraints)
                  = n_public + Len(plonk_additions) + 1
            /\ Wires(g) = <<sa, sb, sc>>
            /\ Selectors(g) =
                  <<(ca * cb) % order, (ca * kb) % order, (ka * cb) % order,
                    (order - cc) % order, (ka * kb + order - kc) % order>>
            /\ \A w \in WitnessesOf(con) :
                  LET wx == CHOOSE x \in
                               {Extended(w, Len(plonk_additions))} : TRUE
                  IN  /\ (ca * wx[sa] + ka) % order = Value(con[1], w)
                      /\ (cb * wx[sb] + kb) % order = Value(con[2], w)
                      /\ (cc * wx[sc] + kc) % order = Value(con[3], w)
                      /\ EmittedHold(w) <=> R1csHolds(con, w)

C16_Witness ==
    /\ LoweredByMul
    /\ Len(plonk_additions) = 2
    /\ ra.k # 0 /\ rb.k # 0 /\ k # 0
    /\ Selectors(Last(plonk_constraints))[2]
          # Selectors(Last(plonk_constraints))[3]

\* lc without its zero entries, coefficients reduced.
NormalOf(lc) ==
    LET nz == {x \in DOMAIN lc : lc[x] % order # 0}
    IN  [x \in nz |-> lc[x] % order]

\* The coefficient of wire x in lc.
CoefOf(lc, x) == IF x \in DOMAIN lc THEN lc[x] % order ELSE 0

\* kk * lc1 + lc2 without its zero entries.
JoinedOf(lc1, kk, lc2) ==
    NormalOf([x \in DOMAIN lc1 \cup DOMAIN lc2 |->
                 (kk * CoefOf(lc1, x) + CoefOf(lc2, x)) % order])

\* reduce_coefs has just been entered on lc with bound m.
EnteredOn(lc, m) ==
    /\ pc' = "reduce"
    /\ max_c' = m
    /\ k' = CoefOf(lc, 0)
    /\ Len(cs') = Cardinality(DOMAIN lc \ {0})
    /\ {cs'[i] : i \in 1..Len(cs')} = {<<x, lc[x]>> : x \in DOMAIN lc \ {0}}

\* How many branches of process are open.
OpenBranches ==
    (IF ENABLED SumOfC THEN 1 ELSE 0) + (IF ENABLED LinearizeA THEN 1 ELSE 0)
      + (IF ENABLED LinearizeB THEN 1 ELSE 0)
      + (IF ENABLED MulOfABC THEN 1 ELSE 0)

\* C17: process(a, b, c) takes the sum-of-C branch (normalize c,
\* add_constraint_sum(c)) whenever a or b classifies as "0", even if the
\* other one classifies as "k"; otherwise, if a is "k", it emits
\* add_constraint_sum(join(b, a[0], c)); otherwise, if b is "k",
\* add_constraint_sum(join(a, b[0], c)); otherwise it calls
\* add_constraint_mul(a, b, c); exactly one branch is taken for each
\* constraint.
C17_DispatchOrder ==
    /\ [](pc = "dispatch" => OpenBranches = 1)
    /\ [][pc = "dispatch" =>
             LET con == r1cs.constraints[ci]
                 A == con[1]
                 B == con[2]
                 C == con[3]
             IN  /\ UNCHANGED <<plonk_constraints, plonk_additions,
                                plonk_n_vars, ci>>
                 /\ IF ClassOf(A) = "0" \/ ClassOf(B) = "0"
                    THEN /\ stage' = "sum"
                         /\ c' = NormalOf(C)
                         /\ EnteredOn(NormalOf(C), 3)
                    ELSE IF ClassOf(A) = "k"
                    THEN /\ stage' = "sum"
                         /\ EnteredOn(JoinedOf(B, A[0], C), 3)
                    ELSE IF ClassOf(B) = "k"
                    THEN /\ stage' = "sum"
                         /\ EnteredOn(JoinedOf(A, B[0], C), 3)
                    ELSE /\ stage' = "mul_a"
                         /\ EnteredOn(NormalOf(A), 1)]_vars

C17_Witness ==
    /\ pc = "reduce" /\ stage = "sum"
    /\ ta = "k" /\ tb = "0"
    /\ plonk_constraints = <<>>
    /\ cs = << <<1, 1>> >>
    /\ c = (1 :> 1)

\* C18: in every iteration of the loop of reduce_coefs the two pairs
\* removed are the two at the front of cs, in that order (they are sl and
\* sr of the addition record), and the pair (so, 1) of the new wire is
\* appended at the back of cs, so a freshly allocated wire is merged only
\* after every pair that was in cs ahead of it; the loop stops as soon as
\* |cs| <= max_c.
C18_FifoReduction ==
    /\ [](pc = "reduce" =>
             /\ (ENABLED ReduceStep) <=> Len(cs) > max_c
             /\ \A i \in 1..Len(cs) : \A j \in (i + 1)..Len(cs) :
                   cs[i][1] >= r1cs.header.n_vars => cs[i][1] < cs[j][1])
    /\ [][pc = "reduce" =>
             IF Len(cs) > max_c
             THEN /\ pc' = "reduce"
                  /\ plonk_additions' =
                        Append(plonk_additions,
                               <<cs[1][1], cs[2][1], cs[1][2], cs[2][2]>>)
                  /\ Last(plonk_constraints')[1] = cs[1][1]
                  /\ Last(plonk_constraints')[2] = cs[2][1]
                  /\ cs' = SubSeq(cs, 3, Len(cs))
                              \o << <<Last(plonk_constraints')[3], 1>> >>
             ELSE /\ plonk_additions' = plonk_additions
                  /\ plonk_n_vars' = plonk_n_vars]_vars

C18_Witness ==
    /\ pc = "reduce"
    /\ max_c = 1
    /\ Len(plonk_additions) = 2
    /\ plonk_additions[2][1] < r1cs.header.n_vars
    /\ plonk_additions[2][2] = r1cs.header.n_vars
    /\ cs = << <<r1cs.header.n_vars + 1, 1>> >>

\* q2 is q1 with entries appended, or q1 itself.
Extends(q2, q1) ==
    /\ Len(q2) >= Len(q1)
    /\ SubSeq(q2, 1, Len(q1)) = q1

\* The number of final gates from position p on, when the next addition
\* gate to come is the one of record j.
RECURSIVE FinalGatesFrom(_, _)
FinalGatesFrom(p, j) ==
    IF p > Len(plonk_constraints) THEN 0
    ELSE IF j <= Len(plonk_additions)
              /\ plonk_constraints[p] = GateOfAddition(j)
         THEN FinalGatesFrom(p + 1, j + 1)
         ELSE 1 + FinalGatesFrom(p + 1, j)

\* C19: plonk_constraints and plonk_additions are only ever appended to;
\* after lowering, plonk_constraints is the n_public public-input gates
\* followed, for each constraint in input order, by that constraint's
\* addition gates in allocation order and then exactly one final sum or
\* multiplication gate, so |plonk_constraints| = n_public + n_constraints
\* + |plonk_additions| and the gates of an earlier constraint all precede
\* the gates of a later one.
C19_OutputOrder ==
    /\ [](pc # "public" =>
             /\ Len(plonk_constraints)
                   = n_public + (ci - 1) + Len(plonk_additions)
             /\ FinalGatesFrom(n_public + 1, 1) = ci - 1)
    /\ [](pc = "done" =>
             /\ ci - 1 = Len(r1cs.constraints)
             /\ Len(plonk_constraints) = n_public + Len(r1cs.constraints)
                                            + Len(plonk_additions)
             /\ Len(r1cs.constraints) > 0 =>
                   Last(plonk_constraints)[3]
                      < r1cs.header.n_vars + Len(plonk_additions))
    /\ [][/\ Extends(plonk_constraints', plonk_constraints)
          /\ Extends(plonk_additions', plonk_additions)
          /\ ci' \in {ci, ci + 1}
          /\ (pc # "public" /\ plonk_constraints' # plonk_constraints) =>
                /\ Len(plonk_constraints') = Len(plonk_constraints) + 1
                /\ ci <= Len(r1cs.constraints)
                /\ IF ci' = ci
                   THEN /\ Len(plonk_additions') = Len(plonk_additions) + 1
                        /\ Last(plonk_constraints')[3] = plonk_n_vars
                   ELSE /\ plonk_additions' = plonk_additions
                        /\ \A i \in 1..3 :
                              Last(plonk_constraints')[i] < plonk_n_vars
          /\ ci' # ci =>
                Len(plonk_constraints') = Len(plonk_constraints) + 1]_vars

C19_Witness ==
    /\ pc = "done"
    /\ Len(r1cs.constraints) = 2
    /\ n_public = 2
    /\ Len(plonk_additions) = 3
    /\ Len(plonk_constraints) = 7
    /\ plonk_constraints[5][4] # 0
    /\ plonk_constraints[6] = GateOfAddition(3)
    /\ plonk_constraints[7][4] = 0

\* The constraint was lowered on its own by the sum-of-C branch.
LoweredBySumOfC ==
    /\ pc = "done"
    /\ Len(r1cs.constraints) = 1
    /\ \/ ClassOf(r1cs.constraints[1][1]) = "0"
       \/ ClassOf(r1cs.constraints[1][2]) = "0"

\* The pairs q followed by pairs (wire 0, coefficient 0) up to length n.
Padded(q, n) == [i \in 1..n |-> IF i <= Len(q) THEN q[i] ELSE <<0, 0>>]

\* C20: reduce_coefs(lc, max_c) always returns exactly max_c (wire,
\* coefficient) pairs, the real pairs first and every padding pair equal
\* to (wire 0, coefficient 0); consequently, when A or B classifies as
\* "0", the emitted gate (s0, s1, s2, qm = 0, ql = c0, qr = c1, qo = c2,
\* qc = k) with its addition gates asserts <C, w> = 0, and for a C with at
\* most 3 non-constant entries no addition is emitted (for C = {1:1} the
\* gate is s = (1, 0, 0), ql = 1, qr = qo = qc = 0).
C20_SumGatePadding ==
    /\ (pc = "reduce" /\ Len(cs) <= max_c) =>
          /\ Len(ReduceResult.s) = max_c
          /\ Len(ReduceResult.coefs) = max_c
          /\ [i \in 1..max_c |->
                <<ReduceResult.s[i], ReduceResult.coefs[i]>>]
                = Padded(cs, max_c)
          /\ ReduceResult.k = k
    /\ LoweredBySumOfC =>
          LET C == r1cs.constraints[1][3]
              g == Last(plonk_constraints)
          IN  /\ Len(cs) <= 3
              /\ [i \in 1..3 |-> <<g[i], g[4 + i]>>] = Padded(cs, 3)
              /\ g[4] = 0
              /\ g[8] = CoefOf(C, 0)
              /\ \A w \in WitnessesOf(r1cs.constraints[1]) :
                    EmittedHold(w) <=> Value(C, w) = 0
              /\ Cardinality(DOMAIN C \ {0}) <= 3 =>
                    /\ plonk_additions = <<>>
                    /\ Len(plonk_constraints) = n_public + 1
                    /\ {cs[i] : i \in 1..Len(cs)}
                          = {<<x, NormalOf(C)[x]>> :
                                x \in DOMAIN NormalOf(C) \ {0}}
              /\ C = (1 :> 1) => g = <<1, 0, 0, 0, 1, 0, 0, 0>>

C20_Witness ==
    /\ LoweredBySumOfC
    /\ r1cs.constraints[1][3] = (1 :> 1)
    /\ Last(plonk_constraints) = <<1, 0, 0, 0, 1, 0, 0, 0>>
    /\ plonk_additions = <<>>

(***************************************************************************)
(* Properties of the domain main computes                                  *)
(***************************************************************************)
\* C21: for every number n >= 1 of PLONK constraints, cir_power =
\* max(ceil(log2(n - 1)), 3) gives domain_size = 2^cir_power >= n, and
\* computing it never underflows or fails for small n (n = 0 or n = 1).
C21_DomainCoversCircuit ==
    /\ []((m_env.domain_size # 0 /\ m_env.n_plonk >= 1) =>
             /\ m_env.cir_power >= 3
             /\ m_env.domain_size = ShiftLeftOne(m_env.cir_power)
             /\ m_env.domain_size >= m_env.n_plonk)
    /\ [][(m_pc = "cir_power" /\ m_env.n_plonk <= 1) =>
             /\ m_result' # "Panic"
             /\ m_env'.cir_power = 3
             /\ m_env'.domain_size = 8]_vars

====
